---------------------------- MODULE Spec2Model ----------------------------
(***************************************************************************)
(* A model of the Stack++ interpreter (src/src/main.rs): the tokenizer,    *)
(* the parser, the value coercions and the evaluator of Core.              *)
(*                                                                         *)
(* Text is a sequence of one-character strings.  A Number is an f64 of the *)
(* model's number domain: the integers of magnitude at most MaxNum, both   *)
(* zeros, both infinities and NaN.  A finite f64 outside that domain has   *)
(* kind "out"; the evaluator's guards keep it off the stack.               *)
(***************************************************************************)
EXTENDS Integers, Sequences, FiniteSets

VARIABLES
    \* tokenize_expr's locals (main.rs 133-138)
    input, pos, tokens, current_token, in_parentheses, in_quote, tphase, result,
    \* Core (main.rs 125-128), the characters print! has written to standard
    \* output (main.rs 273), the activations of eval, the texts main has read
    \* so far (the script, or the lines of each chunk), whether the process
    \* has panicked, and (a history variable) the order eval took last with
    \* the state it took it in
    stack, memory, output, ctl, chunks, aborted, last,
    \* the lines main has written to standard output with println! (main.rs
    \* 35, 47, 49), each with what it shows and the number of characters of
    \* output that precede it
    shown

tokvars == <<input, pos, tokens, current_token, in_parentheses, in_quote, tphase, result>>
corevars == <<stack, memory, output, ctl, chunks, aborted, last, shown>>
vars == <<input, pos, tokens, current_token, in_parentheses, in_quote, tphase, result,
          stack, memory, output, ctl, chunks, aborted, last, shown>>

(***************************************************************************)
(* Bounds of the model.                                                    *)
(***************************************************************************)
MaxNum == 12      \* largest magnitude of a finite Number
MaxStack == 4     \* deepest operand stack
MaxDepth == 4     \* deepest nesting of eval calls and loops
MaxOut == 4       \* most characters written to standard output
MaxRounds == 2    \* chunks the interactive loop evaluates
MaxLen == 6       \* longest tokenizer input drawn from Alphabet
MaxToks == 2      \* most tokens of TokenPool joined into a parser input
MaxSteps == 100   \* most steps of a call of eval computed as a function

(***************************************************************************)
(* Characters.                                                             *)
(***************************************************************************)
FullWidthSpace == "U+3000"
\* The characters the tokenizer splits at (main.rs 169).
Whitespace == {" ", "\n", "\t", "\r", FullWidthSpace}
\* char::is_whitespace, the characters str::trim strips: Unicode White_Space.
\* A character without an escape of its own is written as its code point.
White_Space ==
    {"\t", "\n", "U+000B", "\f", "\r", " ", "U+0085", "U+00A0", "U+1680",
     "U+2000", "U+2001", "U+2002", "U+2003", "U+2004", "U+2005", "U+2006",
     "U+2007", "U+2008", "U+2009", "U+200A", "U+2028", "U+2029", "U+202F",
     "U+205F", FullWidthSpace}
Digits == <<"0", "1", "2", "3", "4", "5", "6", "7", "8", "9">>
DigitSet == {Digits[i] : i \in 1..10}
DigitVal(c) == (CHOOSE i \in 1..10 : Digits[i] = c) - 1

Min(a, b) == IF a < b THEN a ELSE b
Abs(a) == IF a < 0 THEN -a ELSE a
Last(s) == s[Len(s)]
Front(s) == SubSeq(s, 1, Len(s) - 1)
IsSuffix(t, s) == Len(t) <= Len(s) /\ SubSeq(s, Len(s) - Len(t) + 1, Len(s)) = t

(***************************************************************************)
(* enum Type, enum Error, enum Instruction.                                *)
(***************************************************************************)
Num(k, sg, p) == [t |-> "Number", k |-> k, sg |-> sg, p |-> p]
Fin(sg, p) == Num("fin", sg, p)
Int2Num(i) == Fin(IF i < 0 THEN -1 ELSE 1, Abs(i))
Inf(sg) == Num("inf", sg, 0)
NaN == Num("nan", 1, 0)
OutOfDomain == Num("out", 1, 0)
Str(s) == [t |-> "String", s |-> s]
Bool(b) == [t |-> "Bool", b |-> b]
Variable(n) == [t |-> "Variable", name |-> n]
Instruction(i) == [t |-> "Instruction", i |-> i]
Block(b) == [t |-> "Block", blk |-> b]
StackEmpty == [t |-> "Error", e |-> "StackEmpty"]

Instructions ==
    {"Add", "Sub", "Mul", "Div", "Mod", "Pow", "Concat", "Print", "Input", "Equal",
     "LessThan", "GreaterThan", "Eval", "When", "IfElse", "While", "Until", "Let", "Pop"}

\* A Number the model computes with; every other Value is always in the domain.
NumOk(v) == v.t = "Number" => (v.k # "out" /\ v.p <= MaxNum)

(***************************************************************************)
(* f64 arithmetic on the number domain (IEEE 754, round to nearest: exact  *)
(* on integers).  Magnitudes saturate at MaxNum + 1, which NumOk rejects;  *)
(* of a Number NumOk rejects only that it is finite is known, and so of    *)
(* what is computed from it.                                               *)
(***************************************************************************)
Sat(p) == Min(p, MaxNum + 1)
IsNaN(a) == a.k = "nan"
IsInf(a) == a.k = "inf"
IsZero(a) == a.k = "fin" /\ a.p = 0
Out2(a, b) == ~NumOk(a) \/ ~NumOk(b)
NumNeg(a) == IF IsNaN(a) \/ a.k = "out" THEN a ELSE Num(a.k, -a.sg, a.p)

NumAdd(a, b) ==
    IF Out2(a, b) THEN OutOfDomain
    ELSE IF IsNaN(a) \/ IsNaN(b) THEN NaN
    ELSE IF IsInf(a) /\ IsInf(b) THEN (IF a.sg = b.sg THEN a ELSE NaN)
    ELSE IF IsInf(a) THEN a
    ELSE IF IsInf(b) THEN b
    ELSE LET v == a.sg * a.p + b.sg * b.p IN
         IF v # 0 THEN Fin(IF v < 0 THEN -1 ELSE 1, Sat(Abs(v)))
         ELSE IF a.p = 0 /\ a.sg = -1 /\ b.sg = -1 THEN Fin(-1, 0)
         ELSE Fin(1, 0)

NumSub(a, b) == NumAdd(a, NumNeg(b))

NumMul(a, b) ==
    IF Out2(a, b) THEN OutOfDomain
    ELSE IF IsNaN(a) \/ IsNaN(b) THEN NaN
    ELSE IF (IsInf(a) /\ IsZero(b)) \/ (IsZero(a) /\ IsInf(b)) THEN NaN
    ELSE IF IsInf(a) \/ IsInf(b) THEN Inf(a.sg * b.sg)
    ELSE Fin(a.sg * b.sg, Sat(a.p * b.p))

NumDiv(a, b) ==
    IF Out2(a, b) THEN OutOfDomain
    ELSE IF IsNaN(a) \/ IsNaN(b) THEN NaN
    ELSE IF (IsInf(a) /\ IsInf(b)) \/ (IsZero(a) /\ IsZero(b)) THEN NaN
    ELSE IF IsInf(a) \/ IsZero(b) THEN Inf(a.sg * b.sg)
    ELSE IF IsInf(b) THEN Fin(a.sg * b.sg, 0)
    ELSE IF a.p % b.p = 0 THEN Fin(a.sg * b.sg, a.p \div b.p)
    ELSE OutOfDomain

\* f64 % is the remainder of the truncated division: it has the dividend's sign.
NumMod(a, b) ==
    IF Out2(a, b) THEN OutOfDomain
    ELSE IF IsNaN(a) \/ IsNaN(b) THEN NaN
    ELSE IF IsInf(a) \/ IsZero(b) THEN NaN
    ELSE IF IsInf(b) THEN a
    ELSE Fin(a.sg, a.p % b.p)

RECURSIVE PowSat(_, _)
PowSat(p, n) == IF n = 0 THEN 1 ELSE Sat(p * PowSat(p, n - 1))

\* f64::powf on the number domain, where every finite exponent is an integer.
NumPow(a, b) ==
    IF Out2(a, b) THEN OutOfDomain
    ELSE IF IsZero(b) THEN Fin(1, 1)
    ELSE IF a = Fin(1, 1) THEN Fin(1, 1)
    ELSE IF IsNaN(a) \/ IsNaN(b) THEN NaN
    ELSE IF IsInf(b) THEN
        (IF a = Fin(-1, 1) THEN Fin(1, 1)
         ELSE IF IsZero(a) THEN (IF b.sg = 1 THEN Fin(1, 0) ELSE Inf(1))
         ELSE (IF b.sg = 1 THEN Inf(1) ELSE Fin(1, 0)))
    ELSE LET odd == b.p % 2 = 1
             sg == IF odd THEN a.sg ELSE 1 IN
         IF IsInf(a) THEN (IF b.sg = 1 THEN Inf(sg) ELSE Fin(sg, 0))
         ELSE IF IsZero(a) THEN (IF b.sg = 1 THEN Fin(sg, 0) ELSE Inf(sg))
         ELSE IF b.sg = 1 THEN Fin(sg, PowSat(a.p, b.p))
         ELSE IF a.p = 1 THEN Fin(sg, 1)
         ELSE OutOfDomain

\* The order of f64 values; every comparison with NaN is false.
NumKey(a) == IF IsInf(a) THEN a.sg * (MaxNum + 2) ELSE a.sg * a.p
NumLess(a, b) == ~IsNaN(a) /\ ~IsNaN(b) /\ NumKey(a) < NumKey(b)

(***************************************************************************)
(* f64's Display (n.to_string()): the shortest decimal text, "-0" for the  *)
(* negative zero, "inf", "-inf" and "NaN".                                 *)
(***************************************************************************)
RECURSIVE NatText(_)
NatText(n) == IF n < 10 THEN <<Digits[n + 1]>>
              ELSE NatText(n \div 10) \o <<Digits[(n % 10) + 1]>>

NumText(a) ==
    IF IsNaN(a) THEN <<"N", "a", "N">>
    ELSE (IF a.sg = -1 THEN <<"-">> ELSE <<>>)
         \o (IF IsInf(a) THEN <<"i", "n", "f">> ELSE NatText(a.p))

(***************************************************************************)
(* impl Type: the total coercions.                                         *)
(***************************************************************************)
get_number(v) == IF v.t = "Number" THEN v ELSE Fin(1, 0)

get_string(v) ==
    IF v.t = "String" THEN v.s
    ELSE IF v.t = "Variable" THEN v.name
    ELSE IF v.t = "Number" THEN NumText(v)
    ELSE <<>>

\* A to-bool under which a Number other than zero counts as true.
get_bool_truthy(v) ==
    IF v.t = "Bool" THEN v.b ELSE v.t = "Number" /\ ~IsZero(v) /\ ~IsNaN(v)

\* A to-bool under which everything but Bool(false) counts as true.
get_bool_unless_false(v) == IF v.t = "Bool" THEN v.b ELSE TRUE

get_bool(v) == IF v.t = "Bool" THEN v.b ELSE FALSE

get_block(v) == IF v.t = "Block" THEN v.blk ELSE <<v>>

(***************************************************************************)
(* tokenize_expr (main.rs 132-187).  TokState is the function's locals;    *)
(* TokChar is one turn of `for c in input.chars()`; TokEnd is the code     *)
(* after the loop.                                                         *)
(***************************************************************************)
TokState(tk, cur, par, qu) ==
    [tokens |-> tk, current_token |-> cur, in_parentheses |-> par, in_quote |-> qu]

TokStart == TokState(<<>>, <<>>, 0, FALSE)

\* Only a quote keeps whitespace in the token.
InQuoteOnly(s) == s.in_quote

\* main.rs 170: whether whitespace belongs to the token being read.
InsideToken(s) == s.in_parentheses # 0 \/ s.in_quote

\* A closing brace at depth 0 that is kept in the token being read.
StrayBraceKept(s, c) ==
    TokState(s.tokens, Append(s.current_token, c), s.in_parentheses, s.in_quote)

\* main.rs 145: `if in_parentheses != 0` has no else, so a closing brace at
\* depth 0 changes nothing.
StrayBrace(s, c) == s

TokChar(s, c) ==
    IF c = "{" /\ ~s.in_quote THEN
        TokState(s.tokens, Append(s.current_token, c), s.in_parentheses + 1, s.in_quote)
    ELSE IF c = "}" /\ ~s.in_quote THEN
        (IF s.in_parentheses # 0 THEN
            (IF s.in_parentheses - 1 = 0
             THEN TokState(Append(s.tokens, Append(s.current_token, c)), <<>>, 0, s.in_quote)
             ELSE TokState(s.tokens, Append(s.current_token, c),
                           s.in_parentheses - 1, s.in_quote))
         ELSE StrayBrace(s, c))
    ELSE IF c = "\"" THEN
        (IF s.in_parentheses = 0 THEN
            (IF s.in_quote
             THEN TokState(Append(s.tokens, Append(s.current_token, c)), <<>>,
                           s.in_parentheses, FALSE)
             ELSE TokState(s.tokens, Append(s.current_token, c), s.in_parentheses, TRUE))
         ELSE TokState(s.tokens, Append(s.current_token, c), s.in_parentheses, s.in_quote))
    ELSE IF c \in Whitespace THEN
        (IF InsideToken(s)
         THEN TokState(s.tokens, Append(s.current_token, c), s.in_parentheses, s.in_quote)
         ELSE IF s.current_token # <<>>
         THEN TokState(Append(s.tokens, s.current_token), <<>>, s.in_parentheses, s.in_quote)
         ELSE s)
    ELSE TokState(s.tokens, Append(s.current_token, c), s.in_parentheses, s.in_quote)

\* The text read last is pushed whenever it is not empty.
TokEndKeepsOpen(s) ==
    IF s.current_token # <<>> THEN Append(s.tokens, s.current_token) ELSE s.tokens

TokEnd(s) ==
    IF ~(s.in_parentheses # 0 \/ s.in_quote \/ s.current_token = <<>>)
    THEN Append(s.tokens, s.current_token)
    ELSE s.tokens

\* The loop from locals s at character i up to and including character n.
RECURSIVE TokLoop(_, _, _, _)
TokLoop(s, text, i, n) ==
    IF s.in_parentheses >= 0 /\ i > n THEN s
    ELSE TokLoop(TokChar(s, text[i]), text, i + 1, n)

\* The locals after the first n characters of text.
TokRun(text, n) == TokLoop(TokStart, text, 1, n)

tokenize_expr(text) == TokEnd(TokRun(text, Len(text)))

(***************************************************************************)
(* token.parse::<f64>() (main.rs 191): the grammar of f64::from_str,       *)
(*   [+-]? ( inf | infinity | nan | digits [. digits] [e [+-]? digits] )   *)
(* with at least one mantissa digit and the letters in either case.        *)
(***************************************************************************)
Lower(c) ==
    CASE c = "E" -> "e" [] c = "I" -> "i" [] c = "N" -> "n" [] c = "F" -> "f"
      [] c = "A" -> "a" [] c = "T" -> "t" [] c = "Y" -> "y" [] OTHER -> c

LowerText(s) == [i \in 1..Len(s) |-> Lower(s[i])]
Drop(s, n) == SubSeq(s, n + 1, Len(s))

\* The number of digits the text starts with.
DigitRun(s) ==
    CHOOSE n \in 0..Len(s) :
        /\ \A j \in 1..n : s[j] \in DigitSet
        /\ n < Len(s) => s[n + 1] \notin DigitSet

\* The text without the zeros it ends with; the number of zeros it starts with.
StripZeros(s) ==
    SubSeq(s, 1, CHOOSE n \in 0..Len(s) :
                    /\ \A j \in (n + 1)..Len(s) : s[j] = "0"
                    /\ n > 0 => s[n] # "0")
LeadingZeros(s) ==
    CHOOSE n \in 0..Len(s) :
        /\ \A j \in 1..n : s[j] = "0"
        /\ n < Len(s) => s[n + 1] # "0"

\* A digit text as its digits' values; the i-th digit of a fraction, which
\* is 0 after its last one; the value of a short digit sequence.
DigitVals(s) == [i \in 1..Len(s) |-> DigitVal(s[i])]
DigitAt(ds, i) == IF i <= Len(ds) THEN ds[i] ELSE 0
RECURSIVE NatVal(_)
NatVal(ds) == IF ds = <<>> THEN 0 ELSE 10 * NatVal(Front(ds)) + Last(ds)

\* The value of an exponent's digits, no larger than cap.
RECURSIVE DecVal(_, _)
DecVal(s, cap) ==
    IF s = <<>> THEN 0 ELSE Min(cap, 10 * DecVal(Front(s), cap) + DigitVal(Last(s)))

\* 0.a <= 0.b for the digits a and b of two decimal fractions.
LeqFrac(a, b) ==
    LET n == IF Len(a) < Len(b) THEN Len(b) ELSE Len(a) IN
    \/ \A i \in 1..n : DigitAt(a, i) = DigitAt(b, i)
    \/ \E i \in 1..n : /\ DigitAt(a, i) < DigitAt(b, i)
                       /\ \A j \in 1..(i - 1) : DigitAt(a, j) = DigitAt(b, j)

\* The digits of 1 - 0.fr, for a fraction whose last digit is not 0.
OneMinus(fr) == [i \in 1..Len(fr) |-> IF i = Len(fr) THEN 10 - fr[i] ELSE 9 - fr[i]]

\* The digits of 2^-54, of twice 0.ds (less than 1), and of 2^-k for k <= 54.
PowHalf54 ==
    <<0, 0, 0, 0, 0, 0, 0, 0, 0, 0, 0, 0, 0, 0, 0, 0, 5, 5, 5, 1, 1, 1, 5, 1, 2, 3, 1,
      2, 5, 7, 8, 2, 7, 0, 2, 1, 1, 8, 1, 5, 8, 3, 4, 0, 4, 5, 4, 1, 0, 1, 5, 6, 2, 5>>
Twice(ds) ==
    SubSeq([i \in 1..Len(ds) |->
               (2 * ds[i] + (IF DigitAt(ds, i + 1) >= 5 THEN 1 ELSE 0)) % 10], 1, Len(ds))
RECURSIVE PowHalf(_)
PowHalf(k) == IF k >= 54 THEN PowHalf54 ELSE Twice(PowHalf(k + 1))

RECURSIVE Log2(_)
Log2(n) == IF n < 2 THEN 0 ELSE 1 + Log2(n \div 2)
RECURSIVE Pow2(_)
Pow2(e) == IF e = 0 THEN 1 ELSE 2 * Pow2(e - 1)

\* An f64 has 53 significant bits: half the distance from the integer n >= 1
\* to the next f64 above it and to the next one below it.  A decimal that
\* lies no further from n rounds to n (n is the even one of the two).
HalfUlpAbove(n) == PowHalf(53 - Log2(n))
HalfUlpBelow(n) == PowHalf((IF n = Pow2(Log2(n)) THEN 54 ELSE 53) - Log2(n))

\* The significant digits of 2^1024 - 2^970 = 0.17976... * 10^309, halfway
\* from f64::MAX to 2^1024: a decimal that is no smaller parses as infinity.
InfExponent == 309
InfThreshold ==
    <<1, 7, 9, 7, 6, 9, 3, 1, 3, 4, 8, 6, 2, 3, 1, 5, 8, 0, 7, 9, 3, 7, 2, 8, 9, 7, 1, 4, 0, 5, 3, 0, 3, 4, 1, 5,
       0, 7, 9, 9, 3, 4, 1, 3, 2, 7, 1, 0, 0, 3, 7, 8, 2, 6, 9, 3, 6, 1, 7, 3, 7, 7, 8, 9, 8, 0, 4, 4, 4, 9, 6, 8,
       2, 9, 2, 7, 6, 4, 7, 5, 0, 9, 4, 6, 6, 4, 9, 0, 1, 7, 9, 7, 7, 5, 8, 7, 2, 0, 7, 0, 9, 6, 3, 3, 0, 2, 8, 6,
       4, 1, 6, 6, 9, 2, 8, 8, 7, 9, 1, 0, 9, 4, 6, 5, 5, 5, 5, 4, 7, 8, 5, 1, 9, 4, 0, 4, 0, 2, 6, 3, 0, 6, 5, 7,
       4, 8, 8, 6, 7, 1, 5, 0, 5, 8, 2, 0, 6, 8, 1, 9, 0, 8, 9, 0, 2, 0, 0, 0, 7, 0, 8, 3, 8, 3, 6, 7, 6, 2, 7, 3,
       8, 5, 4, 8, 4, 5, 8, 1, 7, 7, 1, 1, 5, 3, 1, 7, 6, 4, 4, 7, 5, 7, 3, 0, 2, 7, 0, 0, 6, 9, 8, 5, 5, 5, 7, 1,
       3, 6, 6, 9, 5, 9, 6, 2, 2, 8, 4, 2, 9, 1, 4, 8, 1, 9, 8, 6, 0, 8, 3, 4, 9, 3, 6, 4, 7, 5, 2, 9, 2, 7, 1, 9,
       0, 7, 4, 1, 6, 8, 4, 4, 4, 3, 6, 5, 5, 1, 0, 7, 0, 4, 3, 4, 2, 7, 1, 1, 5, 5, 9, 6, 9, 9, 5, 0, 8, 0, 9, 3,
       0, 4, 2, 8, 8, 0, 1, 7, 7, 9, 0, 4, 1, 7, 4, 4, 9, 7, 7, 9, 2>>

\* The significant digits of 2^-1075 = 0.24703... * 10^-323, half of the
\* smallest positive f64: a decimal that is no larger parses as zero.
ZeroExponent == -323
ZeroThreshold ==
    <<2, 4, 7, 0, 3, 2, 8, 2, 2, 9, 2, 0, 6, 2, 3, 2, 7, 2, 0, 8, 8, 2, 8, 4, 3, 9, 6, 4, 3, 4, 1, 1, 0, 6, 8, 6,
       1, 8, 2, 5, 2, 9, 9, 0, 1, 3, 0, 7, 1, 6, 2, 3, 8, 2, 2, 1, 2, 7, 9, 2, 8, 4, 1, 2, 5, 0, 3, 3, 7, 7, 5, 3,
       6, 3, 5, 1, 0, 4, 3, 7, 5, 9, 3, 2, 6, 4, 9, 9, 1, 8, 1, 8, 0, 8, 1, 7, 9, 9, 6, 1, 8, 9, 8, 9, 8, 2, 8, 2,
       3, 4, 7, 7, 2, 2, 8, 5, 8, 8, 6, 5, 4, 6, 3, 3, 2, 8, 3, 5, 5, 1, 7, 7, 9, 6, 9, 8, 9, 8, 1, 9, 9, 3, 8, 7,
       3, 9, 8, 0, 0, 5, 3, 9, 0, 9, 3, 9, 0, 6, 3, 1, 5, 0, 3, 5, 6, 5, 9, 5, 1, 5, 5, 7, 0, 2, 2, 6, 3, 9, 2, 2,
       9, 0, 8, 5, 8, 3, 9, 2, 4, 4, 9, 1, 0, 5, 1, 8, 4, 4, 3, 5, 9, 3, 1, 8, 0, 2, 8, 4, 9, 9, 3, 6, 5, 3, 6, 1,
       5, 2, 5, 0, 0, 3, 1, 9, 3, 7, 0, 4, 5, 7, 6, 7, 8, 2, 4, 9, 2, 1, 9, 3, 6, 5, 6, 2, 3, 6, 6, 9, 8, 6, 3, 6,
       5, 8, 4, 8, 0, 7, 5, 7, 0, 0, 1, 5, 8, 5, 7, 6, 9, 2, 6, 9, 9, 0, 3, 7, 0, 6, 3, 1, 1, 9, 2, 8, 2, 7, 9, 5,
       5, 8, 5, 5, 1, 3, 3, 2, 9, 2, 7, 8, 3, 4, 3, 3, 8, 4, 0, 9, 3, 5, 1, 9, 7, 8, 0, 1, 5, 5, 3, 1, 2, 4, 6, 5,
       9, 7, 2, 6, 3, 5, 7, 9, 5, 7, 4, 6, 2, 2, 7, 6, 6, 4, 6, 5, 2, 7, 2, 8, 2, 7, 2, 2, 0, 0, 5, 6, 3, 7, 4, 0,
       0, 6, 4, 8, 5, 4, 9, 9, 9, 7, 7, 0, 9, 6, 5, 9, 9, 4, 7, 0, 4, 5, 4, 0, 2, 0, 8, 2, 8, 1, 6, 6, 2, 2, 6, 2,
       3, 7, 8, 5, 7, 3, 9, 3, 4, 5, 0, 7, 3, 6, 3, 3, 9, 0, 0, 7, 9, 6, 7, 7, 6, 1, 9, 3, 0, 5, 7, 7, 5, 0, 6, 7,
       4, 0, 1, 7, 6, 3, 2, 4, 6, 7, 3, 6, 0, 0, 9, 6, 8, 9, 5, 1, 3, 4, 0, 5, 3, 5, 5, 3, 7, 4, 5, 8, 5, 1, 6, 6,
       6, 1, 1, 3, 4, 2, 2, 3, 7, 6, 6, 6, 7, 8, 6, 0, 4, 1, 6, 2, 1, 5, 9, 6, 8, 0, 4, 6, 1, 9, 1, 4, 4, 6, 7, 2,
       9, 1, 8, 4, 0, 3, 0, 0, 5, 3, 0, 0, 5, 7, 5, 3, 0, 8, 4, 9, 0, 4, 8, 7, 6, 5, 3, 9, 1, 7, 1, 1, 3, 8, 6, 5,
       9, 1, 6, 4, 6, 2, 3, 9, 5, 2, 4, 9, 1, 2, 6, 2, 3, 6, 5, 3, 8, 8, 1, 8, 7, 9, 6, 3, 6, 2, 3, 9, 3, 7, 3, 2,
       8, 0, 4, 2, 3, 8, 9, 1, 0, 1, 8, 6, 7, 2, 3, 4, 8, 4, 9, 7, 6, 6, 8, 2, 3, 5, 0, 8, 9, 8, 6, 3, 3, 8, 8, 5,
       8, 7, 9, 2, 5, 6, 2, 8, 3, 0, 2, 7, 5, 5, 9, 9, 5, 6, 5, 7, 5, 2, 4, 4, 5, 5, 5, 0, 7, 2, 5, 5, 1, 8, 9, 3,
       1, 3, 6, 9, 0, 8, 3, 6, 2, 5, 4, 7, 7, 9, 1, 8, 6, 9, 4, 8, 6, 6, 7, 9, 9, 4, 9, 6, 8, 3, 2, 4, 0, 4, 9, 7,
       0, 5, 8, 2, 1, 0, 2, 8, 5, 1, 3, 1, 8, 5, 4, 5, 1, 3, 9, 6, 2, 1, 3, 8, 3, 7, 7, 2, 2, 8, 2, 6, 1, 4, 5, 4,
       3, 7, 6, 9, 3, 4, 1, 2, 5, 3, 2, 0, 9, 8, 5, 9, 1, 3, 2, 7, 6, 6, 7, 2, 3, 6, 3, 2, 8, 1, 2, 5>>

NoFloat == [ok |-> FALSE, n |-> NaN]
IsFloat(n) == [ok |-> TRUE, n |-> n]

\* The f64 nearest to 0.d * 10^e (ties to even) for significant digits d
\* whose first and last are not 0: a Number of the domain, or OutOfDomain for
\* every other finite f64.
Scaled(sg, d, e) ==
    IF d = <<>> THEN Fin(sg, 0)
    ELSE IF e > InfExponent \/ (e = InfExponent /\ LeqFrac(InfThreshold, d)) THEN Inf(sg)
    ELSE IF e < ZeroExponent \/ (e = ZeroExponent /\ LeqFrac(d, ZeroThreshold)) THEN Fin(sg, 0)
    ELSE IF e > 9 THEN OutOfDomain
    ELSE LET ip == IF e <= 0 THEN 0 ELSE NatVal([i \in 1..e |-> DigitAt(d, i)])
             fr == IF e <= 0 THEN [i \in 1..(-e) |-> 0] \o d ELSE SubSeq(d, e + 1, Len(d))
         IN
         IF ip > MaxNum THEN OutOfDomain
         ELSE IF fr = <<>> THEN Fin(sg, ip)
         ELSE IF ip >= 1 /\ LeqFrac(fr, HalfUlpAbove(ip)) THEN Fin(sg, ip)
         ELSE IF ip + 1 <= MaxNum /\ LeqFrac(OneMinus(fr), HalfUlpBelow(ip + 1))
             THEN Fin(sg, ip + 1)
         ELSE OutOfDomain

parse_f64(token) ==
    LET signed == token # <<>> /\ token[1] \in {"+", "-"}
        sg == IF signed /\ token[1] = "-" THEN -1 ELSE 1
        body == IF signed THEN Tail(token) ELSE token
        word == LowerText(body)
        i == DigitRun(body)
        dotted == Len(body) > i /\ body[i + 1] = "."
        f == IF dotted THEN DigitRun(Drop(body, i + 1)) ELSE 0
        digits == SubSeq(body, 1, i) \o (IF dotted THEN SubSeq(body, i + 2, i + 1 + f) ELSE <<>>)
        zeros == LeadingZeros(digits)
        mant == DigitVals(StripZeros(Drop(digits, zeros)))
        rest == Drop(body, i + (IF dotted THEN 1 + f ELSE 0))
        esigned == Len(rest) >= 2 /\ rest[2] \in {"+", "-"}
        esg == IF esigned /\ rest[2] = "-" THEN -1 ELSE 1
        edigits == Drop(rest, IF esigned THEN 2 ELSE 1)
    IN
    IF body = <<>> THEN NoFloat
    ELSE IF word = <<"n", "a", "n">> THEN IsFloat(NaN)
    ELSE IF word = <<"i", "n", "f">> \/ word = <<"i", "n", "f", "i", "n", "i", "t", "y">>
        THEN IsFloat(Inf(sg))
    ELSE IF i + f = 0 THEN NoFloat
    ELSE IF rest = <<>> THEN IsFloat(Scaled(sg, mant, i - zeros))
    ELSE IF Lower(rest[1]) = "e" /\ edigits # <<>> /\ DigitRun(edigits) = Len(edigits)
        THEN IsFloat(Scaled(sg, mant, i - zeros + esg * DecVal(edigits, Len(token) + 400)))
    ELSE NoFloat

(***************************************************************************)
(* Core::parse (main.rs 131-230).                                          *)
(***************************************************************************)
Keywords ==
    {<<<<"a", "d", "d">>, "Add">>,
     <<<<"s", "u", "b">>, "Sub">>,
     <<<<"m", "u", "l">>, "Mul">>,
     <<<<"d", "i", "v">>, "Div">>,
     <<<<"m", "o", "d">>, "Mod">>,
     <<<<"p", "o", "w">>, "Pow">>,
     <<<<"c", "o", "n", "c", "a", "t">>, "Concat">>,
     <<<<"p", "r", "i", "n", "t">>, "Print">>,
     <<<<"i", "n", "p", "u", "t">>, "Input">>,
     <<<<"e", "q", "u", "a", "l">>, "Equal">>,
     <<<<"l", "e", "s", "s", "-", "t", "h", "a", "n">>, "LessThan">>,
     <<<<"g", "r", "e", "a", "t", "e", "r", "-", "t", "h", "a", "n">>, "GreaterThan">>,
     <<<<"e", "v", "a", "l">>, "Eval">>,
     <<<<"w", "h", "e", "n">>, "When">>,
     <<<<"i", "f", "-", "e", "l", "s", "e">>, "IfElse">>,
     <<<<"w", "h", "i", "l", "e">>, "While">>,
     <<<<"u", "n", "t", "i", "l">>, "Until">>,
     <<<<"l", "e", "t">>, "Let">>,
     <<<<"p", "o", "p">>, "Pop">>}

KeywordTexts == {kw[1] : kw \in Keywords}
KeywordOf(token) == (CHOOSE kw \in Keywords : kw[1] = token)[2]

\* str::trim
RECURSIVE TrimStart(_)
TrimStart(s) == IF s # <<>> /\ s[1] \in White_Space THEN TrimStart(Tail(s)) ELSE s
RECURSIVE TrimEnd(_)
TrimEnd(s) == IF s # <<>> /\ Last(s) \in White_Space THEN TrimEnd(Front(s)) ELSE s
trim(s) == TrimEnd(TrimStart(s))

starts_with(s, c) == s # <<>> /\ s[1] = c
ends_with(s, c) == s # <<>> /\ Last(s) = c

\* str::find / str::rfind with unwrap_or_default: the index (from 0) of the
\* first / last c, or 0.
find(s, c) == IF \E i \in 1..Len(s) : s[i] = c
              THEN (CHOOSE i \in 1..Len(s) : s[i] = c /\ \A j \in 1..(i - 1) : s[j] # c) - 1
              ELSE 0
rfind(s, c) == IF \E i \in 1..Len(s) : s[i] = c
               THEN (CHOOSE i \in 1..Len(s) : s[i] = c /\ \A j \in (i + 1)..Len(s) : s[j] # c) - 1
               ELSE 0

\* String::remove(idx) panics when idx is not inside the string.
CanRemove(s, idx) == idx < Len(s)
remove(s, idx) == SubSeq(s, 1, idx) \o SubSeq(s, idx + 2, Len(s))
Unquoted(s, open, close) == remove(remove(s, find(s, open)), rfind(remove(s, find(s, open)), close))
UnquotePanics(s, open, close) ==
    \/ ~CanRemove(s, find(s, open))
    \/ ~CanRemove(remove(s, find(s, open)), rfind(remove(s, find(s, open)), close))

\* What a panic inside parse leaves in place of the Value sequence.
ParsePanic == [t |-> "Panic"]

\* Whether a token matches none of the arms of main.rs 191-226.
Unrecognized(tok) ==
    LET token == trim(tok) IN
    /\ ~parse_f64(token).ok
    /\ ~(starts_with(token, "\"") /\ ends_with(token, "\""))
    /\ ~(starts_with(token, "{") /\ ends_with(token, "}"))
    /\ ~starts_with(token, "$")
    /\ token \notin KeywordTexts

\* An unmatched token kept as a String.
UnmatchedKept(token) == <<Str(token)>>

\* main.rs 225: `_ => {}`, what a token no arm matches pushes.
Unmatched(token) == <<>>

RECURSIVE parse(_)
RECURSIVE parse_tokens(_)

\* One turn of `for token in tokenize_expr(source)`: the Values it pushes.
parse_token(tok) ==
    LET token == trim(tok) IN
    IF parse_f64(token).ok THEN <<parse_f64(token).n>>
    ELSE IF starts_with(token, "\"") /\ ends_with(token, "\"") THEN
        (IF UnquotePanics(token, "\"", "\"") THEN <<ParsePanic>>
         ELSE <<Str(Unquoted(token, "\"", "\""))>>)
    ELSE IF starts_with(token, "{") /\ ends_with(token, "}") THEN
        (IF UnquotePanics(token, "{", "}") THEN <<ParsePanic>>
         ELSE <<Block(parse(Unquoted(token, "{", "}")))>>)
    ELSE IF starts_with(token, "$") THEN <<Variable(remove(token, find(token, "$")))>>
    ELSE IF token \in KeywordTexts THEN <<Instruction(KeywordOf(token))>>
    ELSE Unmatched(token)

parse_tokens(toks) ==
    IF toks = <<>> THEN <<>> ELSE parse_token(Head(toks)) \o parse_tokens(Tail(toks))

parse(source) == parse_tokens(tokenize_expr(source))

\* Whether a parse panicked, at any depth of blocks.
RECURSIVE Panicked(_)
Panicked(prog) ==
    \E i \in 1..Len(prog) :
        \/ prog[i].t = "Panic"
        \/ prog[i].t = "Block" /\ Panicked(prog[i].blk)

(***************************************************************************)
(* Core::pop (main.rs 355-361).                                            *)
(***************************************************************************)
\* A pop that defaults to a Number: unwrap_or(Type::Number(0.0)).
pop_or_zero(st) ==
    IF st # <<>> THEN [value |-> Last(st), stack |-> Front(st)]
    ELSE [value |-> Fin(1, 0), stack |-> <<>>]

pop(st) ==
    IF st # <<>> THEN [value |-> Last(st), stack |-> Front(st)]
    ELSE [value |-> StackEmpty, stack |-> <<>>]

(***************************************************************************)
(* Core::eval (main.rs 232-353).  eval is re-entrant: ctl is the stack of  *)
(* its activations, the innermost last.  A "seq" frame is one activation   *)
(* of eval with the orders its `for` loop has still to take; a "loop"      *)
(* frame is a `while { ... } { ... }` of a While or Until arm, which is    *)
(* about to evaluate its condition (at = "cond") or to pop the condition's *)
(* result (at = "test").                                                   *)
(***************************************************************************)
SeqFrame(prog) == [k |-> "seq", prog |-> prog]
LoopFrame(neg, condition, body, at) ==
    [k |-> "loop", neg |-> neg, condition |-> condition, body |-> body, at |-> at]

\* What one arm of the match leaves: the stack, the memory, the output and
\* the activations it enters.
Outcome(st, mem, out, frames) ==
    [stack |-> st, memory |-> mem, output |-> out, frames |-> frames]

Insert(mem, name, value) ==
    [n \in DOMAIN mem \cup {name} |-> IF n = name THEN value ELSE mem[n]]

BinaryInstructions ==
    {"Add", "Sub", "Mul", "Div", "Mod", "Pow", "Concat", "Equal", "LessThan", "GreaterThan"}

\* An equal that compares the two values themselves, not their strings.
BinaryResultStrictEqual(i, a, b) ==
    CASE i = "Add" -> NumAdd(get_number(a), get_number(b))
      [] i = "Sub" -> NumSub(get_number(a), get_number(b))
      [] i = "Mul" -> NumMul(get_number(a), get_number(b))
      [] i = "Div" -> NumDiv(get_number(a), get_number(b))
      [] i = "Mod" -> NumMod(get_number(a), get_number(b))
      [] i = "Pow" -> NumPow(get_number(a), get_number(b))
      [] i = "Concat" -> Str(get_string(a) \o get_string(b))
      [] i = "Equal" -> Bool(a = b)
      [] i = "LessThan" -> Bool(NumLess(get_number(a), get_number(b)))
      [] i = "GreaterThan" -> Bool(NumLess(get_number(b), get_number(a)))

\* The value the arms of main.rs 236-292 push for operands a (popped second)
\* and b (popped first).
BinaryResult(i, a, b) ==
    CASE i = "Add" -> NumAdd(get_number(a), get_number(b))
      [] i = "Sub" -> NumSub(get_number(a), get_number(b))
      [] i = "Mul" -> NumMul(get_number(a), get_number(b))
      [] i = "Div" -> NumDiv(get_number(a), get_number(b))
      [] i = "Mod" -> NumMod(get_number(a), get_number(b))
      [] i = "Pow" -> NumPow(get_number(a), get_number(b))
      [] i = "Concat" -> Str(get_string(a) \o get_string(b))
      [] i = "Equal" -> Bool(get_string(a) = get_string(b))
      [] i = "LessThan" -> Bool(NumLess(get_number(a), get_number(b)))
      [] i = "GreaterThan" -> Bool(NumLess(get_number(b), get_number(a)))

\* The operands taken in the other order: the top of the stack as the left one.
ExecBinarySwapped(i, st, mem, out) ==
    LET a == pop(st)
        b == pop(a.stack)
    IN Outcome(Append(b.stack, BinaryResult(i, a.value, b.value)), mem, out, <<>>)

ExecBinary(i, st, mem, out) ==
    LET b == pop(st)
        a == pop(b.stack)
    IN Outcome(Append(a.stack, BinaryResult(i, a.value, b.value)), mem, out, <<>>)

\* println! in place of print!.
ExecPrintLine(st, mem, out) ==
    LET a == pop(st) IN Outcome(a.stack, mem, out \o get_string(a.value) \o <<"\n">>, <<>>)

ExecPrint(st, mem, out) ==
    LET a == pop(st) IN Outcome(a.stack, mem, out \o get_string(a.value), <<>>)

ExecInput(st, mem, out, line) == Outcome(Append(st, Str(line)), mem, out, <<>>)

\* An eval that reads the block on top of the stack and leaves it there.
ExecEvalKeepsBlock(st, mem, out) ==
    LET c == pop(st) IN Outcome(st, mem, out, <<SeqFrame(get_block(c.value))>>)

ExecEval(st, mem, out) ==
    LET c == pop(st) IN Outcome(c.stack, mem, out, <<SeqFrame(get_block(c.value))>>)

\* A when that runs its block again for as long as its bool was true: the
\* While arm's loop around the eval of When.
ExecWhenRepeats(st, mem, out) ==
    LET c == pop(st)
        condition == pop(c.stack)
    IN Outcome(condition.stack, mem, out,
               <<LoopFrame(FALSE, <<Bool(get_bool(condition.value))>>, get_block(c.value),
                           "cond")>>)

ExecWhen(st, mem, out) ==
    LET c == pop(st)
        condition == pop(c.stack)
    IN Outcome(condition.stack, mem, out,
               IF get_bool(condition.value) THEN <<SeqFrame(get_block(c.value))>> ELSE <<>>)

\* An if-else that takes the block for true from the top of the stack.
ExecIfElseTrueOnTop(st, mem, out) ==
    LET code_true == pop(st)
        code_false == pop(code_true.stack)
        condition == pop(code_false.stack)
    IN Outcome(condition.stack, mem, out,
               IF get_bool(condition.value)
               THEN <<SeqFrame(get_block(code_true.value))>>
               ELSE <<SeqFrame(get_block(code_false.value))>>)

ExecIfElse(st, mem, out) ==
    LET code_false == pop(st)
        code_true == pop(code_false.stack)
        condition == pop(code_true.stack)
    IN Outcome(condition.stack, mem, out,
               IF get_bool(condition.value)
               THEN <<SeqFrame(get_block(code_true.value))>>
               ELSE <<SeqFrame(get_block(code_false.value))>>)

\* A loop that runs its body before the first test of the condition.
ExecLoopBodyFirst(neg, st, mem, out) ==
    LET c == pop(st)
        condition == pop(c.stack)
    IN Outcome(condition.stack, mem, out,
               <<LoopFrame(neg, get_block(condition.value), get_block(c.value), "cond"),
                 SeqFrame(get_block(c.value))>>)

\* The two blocks popped in the other order: the condition from the top.
ExecLoopConditionFirst(neg, st, mem, out) ==
    LET condition == pop(st)
        c == pop(condition.stack)
    IN Outcome(c.stack, mem, out,
               <<LoopFrame(neg, get_block(condition.value), get_block(c.value), "cond")>>)

\* While (neg = FALSE) and Until (neg = TRUE).
ExecLoop(neg, st, mem, out) ==
    LET c == pop(st)
        condition == pop(c.stack)
    IN Outcome(condition.stack, mem, out,
               <<LoopFrame(neg, get_block(condition.value), get_block(c.value), "cond")>>)

\* A let that takes the value from the top of the stack and the name below it.
ExecLetNameBelow(st, mem, out) ==
    LET value == pop(st)
        name == pop(value.stack)
    IN Outcome(name.stack, Insert(mem, get_string(name.value), value.value), out, <<>>)

\* A let that keeps an earlier binding: entry(name).or_insert(value).
ExecLetKeepsFirst(st, mem, out) ==
    LET name == pop(st)
        value == pop(name.stack)
    IN Outcome(value.stack,
               IF get_string(name.value) \in DOMAIN mem THEN mem
               ELSE Insert(mem, get_string(name.value), value.value),
               out, <<>>)

ExecLet(st, mem, out) ==
    LET name == pop(st)
        value == pop(name.stack)
    IN Outcome(value.stack, Insert(mem, get_string(name.value), value.value), out, <<>>)

\* A pop through Core::pop that puts the Error it got on the stack.
ExecPopKeepsError(st, mem, out) ==
    LET a == pop(st) IN
    Outcome(IF a.value = StackEmpty THEN Append(a.stack, a.value) ELSE a.stack, mem, out, <<>>)

\* Instruction::Pop calls Vec::pop, not Core::pop.
ExecPop(st, mem, out) ==
    Outcome(IF st = <<>> THEN st ELSE Front(st), mem, out, <<>>)

\* A lookup that moves the value out of memory: memory.remove(&name).
ExecVariableTakes(name, st, mem, out) ==
    Outcome(Append(st, IF name \in DOMAIN mem THEN mem[name] ELSE Variable(name)),
            [n \in DOMAIN mem \ {name} |-> mem[n]], out, <<>>)

ExecVariable(name, st, mem, out) ==
    Outcome(Append(st, IF name \in DOMAIN mem THEN mem[name] ELSE Variable(name)),
            mem, out, <<>>)

\* A block literal that is run where it is met instead of being pushed.
ExecOtherRunsBlock(other, st, mem, out) ==
    IF other.t = "Block" THEN Outcome(st, mem, out, <<SeqFrame(other.blk)>>)
    ELSE Outcome(Append(st, other), mem, out, <<>>)

ExecOther(other, st, mem, out) == Outcome(Append(st, other), mem, out, <<>>)

\* One turn of `for order in program`, for every order but Input.
Exec(order, st, mem, out) ==
    IF order.t = "Instruction" THEN
        (CASE order.i \in BinaryInstructions -> ExecBinary(order.i, st, mem, out)
           [] order.i = "Print" -> ExecPrint(st, mem, out)
           [] order.i = "Eval" -> ExecEval(st, mem, out)
           [] order.i = "When" -> ExecWhen(st, mem, out)
           [] order.i = "IfElse" -> ExecIfElse(st, mem, out)
           [] order.i = "While" -> ExecLoop(FALSE, st, mem, out)
           [] order.i = "Until" -> ExecLoop(TRUE, st, mem, out)
           [] order.i = "Let" -> ExecLet(st, mem, out)
           [] order.i = "Pop" -> ExecPop(st, mem, out))
    ELSE IF order.t = "Variable" THEN ExecVariable(order.name, st, mem, out)
    ELSE ExecOther(order, st, mem, out)

(***************************************************************************)
(* Core::eval as a function: the Machine a call of eval returns with.  A   *)
(* configuration is the Machine with the activations still to run; Step is *)
(* one step of it, and eval runs a program to the end of its outermost     *)
(* activation.  A call has no Machine to return with when it comes back to *)
(* a configuration it has been in ("forever"), reads a line ("input"),     *)
(* computes a Number outside the number domain ("outside"), or takes more  *)
(* than MaxSteps steps ("steps").                                          *)
(***************************************************************************)
Config(st, mem, out, frames) ==
    [stack |-> st, memory |-> mem, output |-> out, ctl |-> frames, outside |-> FALSE]

\* What is left of a configuration whose Numbers are not all in the domain.
Outside == [outside |-> TRUE]

InDomain(st, mem) ==
    /\ \A i \in 1..Len(st) : NumOk(st[i])
    /\ \A n \in DOMAIN mem : NumOk(mem[n])

Checked(c) == IF InDomain(c.stack, c.memory) THEN c ELSE Outside

Returned(c) == [done |-> TRUE, stack |-> c.stack, memory |-> c.memory, output |-> c.output]
NoResult(why) == [done |-> FALSE, why |-> why]

NeedsLine(c) ==
    LET top == c.ctl[Len(c.ctl)] IN
    top.k = "seq" /\ top.prog # <<>> /\ Head(top.prog) = Instruction("Input")

Step(c) ==
    LET top == c.ctl[Len(c.ctl)]
        below == Front(c.ctl)
    IN
    IF top.k = "seq" THEN
        (IF top.prog = <<>> THEN Config(c.stack, c.memory, c.output, below)
         ELSE LET r == Exec(Head(top.prog), c.stack, c.memory, c.output) IN
              Checked(Config(r.stack, r.memory, r.output,
                             Append(below, SeqFrame(Tail(top.prog))) \o r.frames)))
    ELSE IF top.at = "cond" THEN
        Config(c.stack, c.memory, c.output,
               Append(below, [top EXCEPT !.at = "test"]) \o <<SeqFrame(top.condition)>>)
    ELSE LET b == pop(c.stack) IN
         Config(b.stack, c.memory, c.output,
                IF get_bool(b.value) # top.neg
                THEN Append(below, [top EXCEPT !.at = "cond"]) \o <<SeqFrame(top.body)>>
                ELSE below)

\* An earlier configuration of the run, the fewest activations the run has
\* had since, the steps taken since, and the steps after which a later
\* configuration takes its place.
Watch(c, low, age, span) == [config |-> c, low |-> low, age |-> age, span |-> span]

\* The run is back in the watched configuration: with the same Machine and
\* the same innermost activation, after steps that never returned from the
\* activations the watched configuration had beneath it (or with all the
\* same activations).  From here it repeats those steps without end.
Recurs(c, w) ==
    /\ w.age > 0
    /\ c.stack = w.config.stack
    /\ c.memory = w.config.memory
    /\ c.output = w.config.output
    /\ Last(c.ctl) = Last(w.config.ctl)
    /\ \/ c.ctl = w.config.ctl
       \/ Min(w.low, Len(c.ctl)) >= Len(w.config.ctl)

\* Why the run ends in configuration c, or "" when it takes another step.
Ends(c, fuel, w) ==
    IF c.outside THEN "outside"
    ELSE IF c.ctl = <<>> THEN "returned"
    ELSE IF NeedsLine(c) THEN "input"
    ELSE IF Recurs(c, w) THEN "forever"
    ELSE IF fuel = 0 THEN "steps"
    ELSE ""

Watched(c, w) ==
    IF w.age = w.span THEN Watch(c, Len(c.ctl), 1, 2 * w.span)
    ELSE Watch(w.config, Min(w.low, Len(c.ctl)), w.age + 1, w.span)

RECURSIVE RunConfig(_, _, _)
RunConfig(c, fuel, w) ==
    IF Ends(c, fuel, w) = "" THEN RunConfig(Step(c), fuel - 1, Watched(c, w))
    ELSE IF Ends(c, fuel, w) = "returned" THEN Returned(c)
    ELSE NoResult(Ends(c, fuel, w))

eval(program, st, mem, out) ==
    LET c == Checked(Config(st, mem, out, <<SeqFrame(program)>>)) IN
    RunConfig(c, MaxSteps, Watch(c, 1, 0, 1))

(***************************************************************************)
(* Source texts.                                                           *)
(***************************************************************************)
RECURSIVE Join(_)
Join(words) ==
    IF words = <<>> THEN <<>>
    ELSE IF Len(words) = 1 THEN words[1]
    ELSE words[1] \o <<" ">> \o Join(Tail(words))

Quoted(s) == <<"\"">> \o s \o <<"\"">>
Braced(s) == <<"{">> \o s \o <<"}">>
Kw(i) == (CHOOSE kw \in Keywords : kw[2] = i)[1]

SrcLetNameFirst(n) == Join(<<Quoted(<<"x">>), <<n>>, Kw("Let"), <<"$", "x">>>>)
SrcLetValueFirst(n) == Join(<<<<n>>, Quoted(<<"x">>), Kw("Let"), <<"$", "x">>>>)

LoopCondition == Braced(Join(<<<<"$", "i">>, <<"1", "0">>, Kw("LessThan")>>))
SrcCountNameFirst ==
    Join(<<Quoted(<<"i">>), <<"0">>, Kw("Let"), LoopCondition,
           Braced(Join(<<Quoted(<<"i">>), <<"$", "i">>, <<"1">>, Kw("Add"), Kw("Let")>>)),
           Kw("While")>>)
SrcCountValueFirst ==
    Join(<<<<"0">>, Quoted(<<"i">>), Kw("Let"), LoopCondition,
           Braced(Join(<<<<"$", "i">>, <<"1">>, Kw("Add"), Quoted(<<"i">>), Kw("Let")>>)),
           Kw("While")>>)

PrintHi == Braced(Join(<<Quoted(<<"h", "i">>), Kw("Print")>>))
SrcWhen(n) == Join(<<<<n>>, PrintHi, Kw("When")>>)
SrcWhenEqual == Join(<<<<"1">>, <<"1">>, Kw("Equal"), PrintHi, Kw("When")>>)

SrcAddPrint == Join(<<Kw("Add"), Kw("Print")>>)
Src34(i) == Join(<<<<"3">>, <<"4">>, Kw(i)>>)
SrcRebind ==
    Join(<<<<"5">>, Quoted(<<"x">>), Kw("Let"), <<"$", "x">>,
           <<"6">>, Quoted(<<"x">>), Kw("Let")>>)

\* Operands for the instruction of the next chunk.
Setups ==
    {Join(<<<<"7">>, <<"3">>, <<"4">>>>),
     Join(<<Quoted(<<"a">>), <<"-", "4">>, <<"2">>>>),
     Join(<<<<"2">>, Quoted(<<"b">>), <<"0">>>>),
     Join(<<<<"$", "y">>, <<"1">>>>),
     Join(<<<<"1">>, <<"1">>, Kw("Equal"), Braced(<<"9">>), Braced(<<"8">>)>>),
     Join(<<Braced(Join(<<<<"1">>, <<"1">>, Kw("Equal")>>)), Braced(<<"9">>)>>),
     <<"6">>}

Sources ==
    {<<>>}
    \cup {Kw(i) : i \in Instructions}
    \cup Setups
    \cup {SrcLetNameFirst("5"), SrcLetNameFirst("6"),
          SrcLetValueFirst("5"), SrcLetValueFirst("6"),
          SrcCountNameFirst, SrcCountValueFirst,
          SrcWhen("0"), SrcWhen("1"), SrcWhenEqual,
          SrcAddPrint, Src34("Add"), Src34("Sub"), SrcRebind}

\* The lines a terminal may hand to Input.
InputLines == {<<>>, <<"h", "i">>}

(***************************************************************************)
(* The evaluator's steps.                                                  *)
(***************************************************************************)
NoMemory == [n \in {} |-> StackEmpty]
Before(order, st, mem, out) == [order |-> order, stack |-> st, memory |-> mem, output |-> out]
\* The values of last that stand for no order: before the first order of a
\* chunk, and after a loop has popped the result of its condition.
NoOrder == Before([t |-> "None"], <<>>, NoMemory, <<>>)
LoopPopped(st, mem, out) == Before([t |-> "LoopTest"], st, mem, out)

Top == ctl[Len(ctl)]
Running == ctl # <<>> /\ ~aborted
AtOrder == Running /\ Top.k = "seq" /\ Top.prog # <<>>
Order == Head(Top.prog)
AtInstruction(is) == AtOrder /\ Order.t = "Instruction" /\ Order.i \in is

\* The bounds an outcome has to respect to be part of the model.
Fits(r, frames) ==
    /\ Len(r.stack) <= MaxStack
    /\ Len(r.output) <= MaxOut
    /\ Len(frames) <= MaxDepth
    /\ r.stack # <<>> => NumOk(Last(r.stack))

\* The order is taken off the activation's program and its arm has run.
Take(r) ==
    LET frames == Append(Front(ctl), SeqFrame(Tail(Top.prog))) \o r.frames IN
    /\ Fits(r, frames)
    /\ stack' = r.stack
    /\ memory' = r.memory
    /\ output' = r.output
    /\ ctl' = frames
    /\ last' = Before(Order, stack, memory, output)
    /\ UNCHANGED <<chunks, aborted, shown>>
    /\ UNCHANGED tokvars

\* The lines of main: println!("Stack++"), println!("AST    : {program:?}")
\* and println!("Result : {stackpp:?}").  A line is kept as the values it
\* shows, not as the text their Debug form gives.
BannerLine == [line |-> "Stack++", at |-> 0]
AstLine(program, at) == [line |-> "AST", program |-> program, at |-> at]
ResultLine(st, mem, at) == [line |-> "Result", stack |-> st, memory |-> mem, at |-> at]

\* main.rs 37-44: every line read is added to code with a newline after it,
\* and the empty line is the last one read.  The lines are the pieces of
\* the text between newlines, and the terminal ends the text with an empty
\* line when it holds none: code is the text up to and including the
\* newline of its first empty line, which is "\n" alone when the first
\* line read is already the empty one.
Typed(lines) ==
    LET text == lines \o <<"\n", "\n">>
        EndsChunk(n) == /\ text[n] = "\n"
                        /\ (n = 1 \/ text[n - 1] = "\n")
        n == CHOOSE k \in 1..Len(text) :
                 /\ EndsChunk(k)
                 /\ \A j \in 1..(k - 1) : ~EndsChunk(j)
    IN SubSeq(text, 1, n)

\* main.rs 35: without a file argument main writes its banner and goes on to
\* read chunks.
Start ==
    /\ shown = <<>>
    /\ chunks = <<>>
    /\ ctl = <<>>
    /\ ~aborted
    /\ shown' = <<BannerLine>>
    /\ UNCHANGED <<stack, memory, output, ctl, chunks, aborted, last>>
    /\ UNCHANGED tokvars

\* main.rs 36-48: a chunk is read, parsed and shown, and eval is called on
\* the one Core.  A panic inside parse ends the process before the AST line.
Run ==
    /\ shown # <<>>
    /\ ctl = <<>>
    /\ ~aborted
    /\ Len(chunks) < MaxRounds
    /\ \E src \in Sources :
        LET program == parse(Typed(src)) IN
        /\ chunks' = Append(chunks, src)
        /\ ctl' = IF Panicked(program) THEN <<>> ELSE <<SeqFrame(program)>>
        /\ aborted' = Panicked(program)
        /\ shown' = IF Panicked(program) THEN shown
                    ELSE Append(shown, AstLine(program, Len(output)))
    /\ last' = NoOrder
    /\ UNCHANGED <<stack, memory, output>>
    /\ UNCHANGED tokvars

\* main.rs 39: rl.readline("> ").unwrap() panics when the terminal hands over
\* no line (it was closed or interrupted).
PromptFails ==
    /\ shown # <<>>
    /\ ctl = <<>>
    /\ ~aborted
    /\ aborted' = TRUE
    /\ UNCHANGED <<stack, memory, output, ctl, chunks, last, shown>>
    /\ UNCHANGED tokvars

PushOther ==
    /\ AtOrder
    /\ Order.t \notin {"Instruction", "Variable"}
    /\ Take(Exec(Order, stack, memory, output))

PushVariable ==
    /\ AtOrder
    /\ Order.t = "Variable"
    /\ Take(Exec(Order, stack, memory, output))

Binary ==
    /\ AtInstruction(BinaryInstructions)
    /\ Take(Exec(Order, stack, memory, output))

PrintOut ==
    /\ AtInstruction({"Print"})
    /\ Take(Exec(Order, stack, memory, output))

\* DefaultEditor::new().unwrap().readline("").unwrap(): a line, or a panic
\* when the terminal gives none.
Input ==
    /\ AtInstruction({"Input"})
    /\ \E line \in InputLines : Take(ExecInput(stack, memory, output, line))

InputFails ==
    /\ AtInstruction({"Input"})
    /\ aborted' = TRUE
    /\ last' = Before(Order, stack, memory, output)
    /\ UNCHANGED <<stack, memory, output, ctl, chunks, shown>>
    /\ UNCHANGED tokvars

EvalBlock ==
    /\ AtInstruction({"Eval"})
    /\ Take(Exec(Order, stack, memory, output))

When ==
    /\ AtInstruction({"When"})
    /\ Take(Exec(Order, stack, memory, output))

IfElse ==
    /\ AtInstruction({"IfElse"})
    /\ Take(Exec(Order, stack, memory, output))

Loop ==
    /\ AtInstruction({"While", "Until"})
    /\ Take(Exec(Order, stack, memory, output))

\* main.rs 318 / 328: self.eval(condition.clone())
LoopCond ==
    /\ Running
    /\ Top.k = "loop"
    /\ Top.at = "cond"
    /\ Len(ctl) < MaxDepth
    /\ ctl' = Append(Front(ctl), [Top EXCEPT !.at = "test"]) \o <<SeqFrame(Top.condition)>>
    /\ UNCHANGED <<stack, memory, output, chunks, aborted, last, shown>>
    /\ UNCHANGED tokvars

\* main.rs 319-322 / 329-332: pop the condition's result, then run the body
\* or leave the loop.
LoopTest ==
    /\ Running
    /\ Top.k = "loop"
    /\ Top.at = "test"
    /\ LET c == pop(stack)
           again == IF Top.neg THEN ~get_bool(c.value) ELSE get_bool(c.value)
       IN /\ stack' = c.stack
          /\ ctl' = IF again
                    THEN Append(Front(ctl), [Top EXCEPT !.at = "cond"])
                         \o <<SeqFrame(Top.body)>>
                    ELSE Front(ctl)
          /\ again => Len(ctl) < MaxDepth
    /\ last' = LoopPopped(stack, memory, output)
    /\ UNCHANGED <<memory, output, chunks, aborted, shown>>
    /\ UNCHANGED tokvars

Let ==
    /\ AtInstruction({"Let"})
    /\ Take(Exec(Order, stack, memory, output))

Pop ==
    /\ AtInstruction({"Pop"})
    /\ Take(Exec(Order, stack, memory, output))

\* The `for` loop of an activation is over: eval returns.  When the call
\* of main.rs 48 returns, main shows the Core (main.rs 49).
Return ==
    /\ Running
    /\ Top.k = "seq"
    /\ Top.prog = <<>>
    /\ ctl' = Front(ctl)
    /\ shown' = IF Len(ctl) = 1 /\ shown # <<>>
                THEN Append(shown, ResultLine(stack, memory, Len(output)))
                ELSE shown
    /\ UNCHANGED <<stack, memory, output, chunks, aborted, last>>
    /\ UNCHANGED tokvars

TokIdle ==
    /\ input = <<>>
    /\ pos = 1
    /\ tokens = <<>>
    /\ current_token = <<>>
    /\ in_parentheses = 0
    /\ in_quote = FALSE
    /\ tphase = "idle"
    /\ result = <<>>

CoreNew ==
    /\ stack = <<>>
    /\ memory = NoMemory
    /\ output = <<>>
    /\ ctl = <<>>
    /\ chunks = <<>>
    /\ aborted = FALSE
    /\ last = NoOrder
    /\ shown = <<>>

\* main.rs 23-26: the Core main builds.
Init == CoreNew /\ TokIdle

\* One step of Core::eval.
Evaluate ==
    \/ PushOther
    \/ PushVariable
    \/ Binary
    \/ PrintOut
    \/ Input
    \/ InputFails
    \/ EvalBlock
    \/ When
    \/ IfElse
    \/ Loop
    \/ LoopCond
    \/ LoopTest
    \/ Let
    \/ Pop
    \/ Return

Next ==
    \/ Start
    \/ Run
    \/ PromptFails
    \/ Evaluate

Spec == Init /\ [][Next]_vars

\* eval runs on one thread until it returns to main: a step of it that can be
\* taken is taken.  Whether main is handed another chunk is up to the user.
FairSpec == Spec /\ WF_vars(Evaluate)

(***************************************************************************)
(* File mode (main.rs 28-30): one script, evaluated on the fresh Core,      *)
(* after which the process ends.                                           *)
(***************************************************************************)
\* Operands for the instruction that ends a script.
FileSetups ==
    Setups
    \cup {Join(<<<<"5">>, Braced(<<>>)>>),
          Join(<<<<"1">>, <<"1">>, Kw("Equal"), Braced(<<>>)>>),
          Join(<<<<"1">>, <<"0">>, Kw("Equal"), Braced(<<"9">>), Braced(<<"8">>)>>),
          Join(<<<<"1">>, Quoted(<<"1">>)>>)}

\* `{"c" print $i "i" equal} {"b" print 1 "i" let} while`: the condition holds
\* until the body has bound i.
SrcWhileTrace ==
    Join(<<Braced(Join(<<Quoted(<<"c">>), Kw("Print"), <<"$", "i">>, Quoted(<<"i">>),
                         Kw("Equal")>>)),
           Braced(Join(<<Quoted(<<"b">>), Kw("Print"), <<"1">>, Quoted(<<"i">>), Kw("Let")>>)),
           Kw("While")>>)

\* `{"c" print $i 1 equal} {"b" print 1 "i" let} until`: the condition fails
\* until the body has bound i.
SrcUntilTrace ==
    Join(<<Braced(Join(<<Quoted(<<"c">>), Kw("Print"), <<"$", "i">>, <<"1">>, Kw("Equal")>>)),
           Braced(Join(<<Quoted(<<"b">>), Kw("Print"), <<"1">>, Quoted(<<"i">>), Kw("Let")>>)),
           Kw("Until")>>)

\* `5 "x" let 7 "y" let 6 "x" let $x $y`
SrcLetTwoNames ==
    Join(<<<<"5">>, Quoted(<<"x">>), Kw("Let"), <<"7">>, Quoted(<<"y">>), Kw("Let"),
           <<"6">>, Quoted(<<"x">>), Kw("Let"), <<"$", "x">>, <<"$", "y">>>>)

\* `{{$x eval} "x" let $x eval} eval`: the block binds x to a block that
\* fetches and evaluates x.
SrcEvalSelf ==
    Join(<<Braced(Join(<<Braced(Join(<<<<"$", "x">>, Kw("Eval")>>)), Quoted(<<"x">>),
                         Kw("Let"), <<"$", "x">>, Kw("Eval")>>)),
           Kw("Eval")>>)

Scripts ==
    Sources
    \cup {Join(<<s, Kw(i)>>) : s \in FileSetups, i \in Instructions}
    \cup {SrcWhileTrace, SrcUntilTrace, SrcLetTwoNames, SrcEvalSelf}

\* main.rs 28-30: stackpp.eval(Core::parse(code)) on the file's text.
RunFile ==
    /\ shown = <<>>
    /\ ctl = <<>>
    /\ ~aborted
    /\ chunks = <<>>
    /\ \E src \in Scripts :
        /\ chunks' = <<src>>
        /\ ctl' = IF Panicked(parse(src)) THEN <<>> ELSE <<SeqFrame(parse(src))>>
        /\ aborted' = Panicked(parse(src))
    /\ last' = NoOrder
    /\ UNCHANGED <<stack, memory, output, shown>>
    /\ UNCHANGED tokvars

FileNext ==
    \/ RunFile
    \/ Evaluate

\* eval runs on main's thread until it returns: a step it can take is taken.
FileSpec == Init /\ [][FileNext]_vars /\ WF_vars(Evaluate)

(***************************************************************************)
(* tokenize_expr and parse, one character at a time, on every short text.  *)
(***************************************************************************)
Alphabet == {"{", "}", "\"", " ", "a", "1"}

RECURSIVE TextsUpTo(_)
TextsUpTo(n) ==
    IF n = 0 THEN {<<>>}
    ELSE LET shorter == TextsUpTo(n - 1) IN
         shorter \cup {Append(t, c) : t \in {x \in shorter : Len(x) = n - 1}, c \in Alphabet}

TokenPool ==
    {<<"1">>, Quoted(<<"a">>), Braced(<<"x", " ", "1">>), <<"$", "v">>, Kw("Pop"),
     <<"x">>, <<"p", "o">>, <<"a">> \o Quoted(<<"b">>), <<"1", "x">>, <<"-">>,
     <<"\f">> \o Kw("Pop"), <<"2", "0", "e", "-", "1">>}

RECURSIVE TokenLists(_)
TokenLists(n) ==
    IF n = 0 THEN {<<>>}
    ELSE LET shorter == TokenLists(n - 1) IN
         shorter \cup {Append(l, t) : l \in {x \in shorter : Len(x) = n - 1}, t \in TokenPool}

TokInputs == TextsUpTo(MaxLen) \cup {Join(l) : l \in TokenLists(MaxToks)}

TokLocals == TokState(tokens, current_token, in_parentheses, in_quote)

\* main.rs 138-181: one turn of `for c in input.chars()`.
TokStep ==
    /\ tphase = "scan"
    /\ pos <= Len(input)
    /\ LET s == TokChar(TokLocals, input[pos]) IN
        /\ tokens' = s.tokens
        /\ current_token' = s.current_token
        /\ in_parentheses' = s.in_parentheses
        /\ in_quote' = s.in_quote
    /\ pos' = pos + 1
    /\ UNCHANGED <<input, tphase, result>>
    /\ UNCHANGED corevars

\* main.rs 183-186: the code after the loop.
TokFinish ==
    /\ tphase = "scan"
    /\ pos > Len(input)
    /\ tokens' = TokEnd(TokLocals)
    /\ tphase' = "tokens"
    /\ UNCHANGED <<input, pos, current_token, in_parentheses, in_quote, result>>
    /\ UNCHANGED corevars

\* main.rs 188-229: the loop over the tokens.
ParseTokens ==
    /\ tphase = "tokens"
    /\ result' = parse_tokens(tokens)
    /\ tphase' = "parsed"
    /\ UNCHANGED <<input, pos, tokens, current_token, in_parentheses, in_quote>>
    /\ UNCHANGED corevars

TokInit ==
    /\ input \in TokInputs
    /\ pos = 1
    /\ tokens = <<>>
    /\ current_token = <<>>
    /\ in_parentheses = 0
    /\ in_quote = FALSE
    /\ tphase = "scan"
    /\ result = <<>>
    /\ CoreNew

TokNext ==
    \/ TokStep
    \/ TokFinish
    \/ ParseTokens

TokSpec == TokInit /\ [][TokNext]_vars

(***************************************************************************)
(* The claims.                                                             *)
(***************************************************************************)
\* eval has returned to main from the last chunk.
Finished == chunks # <<>> /\ ctl = <<>> /\ ~aborted
\* The process has panicked inside a call of eval (not at main's prompt).
EvalPanicked == aborted /\ ctl # <<>>
TopIs(v) == stack # <<>> /\ Last(stack) = v
Binds(name, v) == name \in DOMAIN memory /\ memory[name] = v

\* C1 as stated: from an empty Machine, `"x" 5 let $x` leaves Number(5.0) on
\* top of the stack, and `"x" 6 let $x` evaluated next on the same Machine
\* leaves Number(6.0) on top.
C1_NameFirstRebinds ==
    Finished =>
        /\ chunks = <<SrcLetNameFirst("5")>> => TopIs(Fin(1, 5))
        /\ chunks = <<SrcLetNameFirst("5"), SrcLetNameFirst("6")>> => TopIs(Fin(1, 6))

\* C1 amended: with the value pushed before the name, `5 "x" let $x` leaves
\* Number(5.0) on top of the stack and binds x to it, and `6 "x" let $x`
\* evaluated next on the same Machine leaves Number(6.0) on top and x bound
\* to 6 alone; `"x" 5 let $x` binds the name 5 to String("x") and leaves the
\* unresolved Variable(x) on top.
C1_ValueFirstRebinds ==
    Finished =>
        /\ chunks = <<SrcLetValueFirst("5")>> =>
            TopIs(Fin(1, 5)) /\ Binds(<<"x">>, Fin(1, 5))
        /\ chunks = <<SrcLetValueFirst("5"), SrcLetValueFirst("6")>> =>
            /\ stack = <<Fin(1, 5), Fin(1, 6)>>
            /\ Binds(<<"x">>, Fin(1, 6))
            /\ DOMAIN memory = {<<"x">>}
        /\ chunks = <<SrcLetNameFirst("5")>> =>
            TopIs(Variable(<<"x">>)) /\ Binds(<<"5">>, Str(<<"x">>))

C1_Witness ==
    /\ Finished
    /\ chunks = <<SrcLetValueFirst("5"), SrcLetValueFirst("6")>>
    /\ TopIs(Fin(1, 6))

\* C2 as stated: from an empty Machine, `"i" 0 let {$i 10 less-than}
\* {"i" $i 1 add let} while` terminates, with i bound to Number(10.0).
C2_NameFirstLoopEnds ==
    (chunks = <<SrcCountNameFirst>> /\ ~aborted)
        ~> (Finished /\ chunks = <<SrcCountNameFirst>> /\ Binds(<<"i">>, Fin(1, 10)))

\* C2 amended: with the value pushed before the name in both lets, `0 "i" let
\* {$i 10 less-than} {$i 1 add "i" let} while` terminates from an empty
\* Machine, with an empty stack and i bound to Number(10.0).
C2_ValueFirstLoopEnds ==
    (chunks = <<SrcCountValueFirst>> /\ ~aborted)
        ~> (/\ Finished
            /\ chunks = <<SrcCountValueFirst>>
            /\ Binds(<<"i">>, Fin(1, 10))
            /\ stack = <<>>)

C2_Witness ==
    /\ Finished
    /\ chunks = <<SrcCountValueFirst>>
    /\ Binds(<<"i">>, Fin(1, 10))

\* C3 as stated: `0 {"hi" print} when` writes nothing, and `1 {"hi" print}
\* when` writes hi exactly once.
C3_NumberOneRunsBlock ==
    Finished =>
        /\ chunks = <<SrcWhen("0")>> => output = <<>>
        /\ chunks = <<SrcWhen("1")>> => output = <<"h", "i">>

\* C3 amended: `0 {"hi" print} when` writes nothing, `1 {"hi" print} when`
\* writes nothing either (Number(1.0) coerces to false), and with a Bool(true)
\* condition, `1 1 equal {"hi" print} when`, hi is written exactly once.
C3_OnlyBoolTrueRunsBlock ==
    /\ chunks \in {<<SrcWhen("0")>>, <<SrcWhen("1")>>} => output = <<>>
    /\ chunks = <<SrcWhenEqual>> => output \in {<<>>, <<"h", "i">>}
    /\ chunks = <<SrcWhenEqual>> /\ Finished => output = <<"h", "i">>

C3_Witness ==
    /\ Finished
    /\ chunks = <<SrcWhenEqual>>
    /\ output = <<"h", "i">>
    /\ stack = <<>>

\* C4 as stated: `add` on an empty stack does not abort, and `add print` on
\* an empty stack writes the empty string and does not abort.
C4_AddPrintWritesNothing ==
    /\ chunks \in {<<Kw("Add")>>, <<SrcAddPrint>>} => ~EvalPanicked
    /\ chunks = <<SrcAddPrint>> /\ Finished => output = <<>>

\* C4 amended: `add` on an empty stack does not abort and leaves Number(0.0);
\* `add print` on an empty stack does not abort and writes 0, the text of
\* that Number.
C4_AddPrintWritesZero ==
    /\ chunks \in {<<Kw("Add")>>, <<SrcAddPrint>>} => ~EvalPanicked
    /\ chunks = <<Kw("Add")>> /\ Finished => stack = <<Fin(1, 0)>>
    /\ chunks = <<SrcAddPrint>> /\ Finished => output = <<"0">> /\ stack = <<>>

C4_Witness ==
    /\ Finished
    /\ chunks = <<SrcAddPrint>>
    /\ output = <<"0">>

\* The operands an instruction pops.
Arity(i) ==
    CASE i \in BinaryInstructions \cup {"When", "While", "Until", "Let"} -> 2
      [] i \in {"Print", "Eval", "Pop"} -> 1
      [] i = "IfElse" -> 3
      [] i = "Input" -> 0

\* The stack with an Error(StackEmpty) below it for each of n operands it lacks.
Padded(st, n) == [j \in 1..(IF Len(st) < n THEN n - Len(st) ELSE 0) |-> StackEmpty] \o st

\* C5: no instruction but input aborts, whatever the stack holds.  On a
\* stack with fewer values than the instruction pops, each missing operand is
\* Error(StackEmpty) and the stack stays empty: the instruction does what it
\* does on the same stack with those Errors lying below, coerced like any
\* other value (to 0 by add, "" by concat and let, false by when, the block
\* [Error(StackEmpty)] by eval).
C5_MissingOperandIsStackEmpty ==
    /\ EvalPanicked => last.order = Instruction("Input")
    /\ (AtOrder /\ Order.t = "Instruction" /\ Order.i # "Input") =>
        Exec(Order, stack, memory, output)
            = Exec(Order, Padded(stack, Arity(Order.i)), memory, output)
    /\ (Finished /\ Len(chunks) = 1 /\ memory = NoMemory) =>
        /\ chunks[1] = Kw("Add") => stack = <<Fin(1, 0)>>
        /\ chunks[1] = Kw("Concat") => stack = <<Str(<<>>)>>
        /\ chunks[1] = Kw("When") => stack = <<>> /\ output = <<>>
        /\ chunks[1] = Kw("Eval") => stack = <<StackEmpty>>
        /\ chunks[1] = Kw("Pop") => stack = <<>>
    /\ (Finished /\ chunks = <<Kw("Let")>>) => Binds(<<>>, StackEmpty) /\ stack = <<>>

\* if-else on a stack of two values: the third operand, the condition, is the
\* Error, which coerces to false, so the block popped first is entered.
C5_Witness ==
    /\ ~aborted
    /\ last.order = Instruction("IfElse")
    /\ last.stack = <<Variable(<<"y">>), Fin(1, 1)>>
    /\ stack = <<>>
    /\ Top = SeqFrame(<<Fin(1, 1)>>)

\* C6: a binary instruction on a stack whose two top values are L (below)
\* and R (on top) replaces them by the result of L op R and changes nothing
\* else; `3 4 add` leaves Number(7.0) and `3 4 sub` leaves Number(-1.0).
C6_BinaryTakesLeftBelowRight ==
    /\ (/\ last.order.t = "Instruction"
        /\ last.order.i \in BinaryInstructions
        /\ Len(last.stack) >= 2) =>
        LET n == Len(last.stack) IN
        /\ stack = Append(SubSeq(last.stack, 1, n - 2),
                          BinaryResult(last.order.i, last.stack[n - 1], last.stack[n]))
        /\ memory = last.memory
        /\ output = last.output
    /\ (Finished /\ chunks = <<Src34("Add")>>) => stack = <<Fin(1, 7)>>
    /\ (Finished /\ chunks = <<Src34("Sub")>>) => stack = <<Fin(-1, 1)>>

C6_Witness ==
    /\ last.order = Instruction("Sub")
    /\ last.stack = <<Fin(1, 7), Fin(1, 3), Fin(1, 4)>>
    /\ stack = <<Fin(1, 7), Fin(-1, 1)>>

\* C10: evaluating a VariableRef(name) pushes exactly one value, the value
\* memory binds to name or else the VariableRef itself, and leaves memory
\* unchanged; a later let changes memory but none of the values that stay on
\* the stack: after `5 "x" let $x 6 "x" let` the stack still holds the 5
\* pushed for $x while x is bound to 6.
C10_VariablePushesCopy ==
    /\ last.order.t = "Variable" =>
        /\ stack = Append(last.stack,
                          IF last.order.name \in DOMAIN last.memory
                          THEN last.memory[last.order.name]
                          ELSE last.order)
        /\ memory = last.memory
        /\ output = last.output
    /\ last.order = Instruction("Let") =>
        stack = SubSeq(last.stack, 1, Len(last.stack) - 2)
    /\ (Finished /\ chunks = <<SrcRebind>>) =>
        stack = <<Fin(1, 5)>> /\ Binds(<<"x">>, Fin(1, 6))

C10_Witness ==
    /\ Finished
    /\ chunks = <<SrcRebind>>
    /\ stack = <<Fin(1, 5)>>
    /\ Binds(<<"x">>, Fin(1, 6))

(***************************************************************************)
(* The claims about tokenize_expr and parse.  Scan reads a text by the     *)
(* rules of the language alone: a quote mark at depth 0 opens or closes a  *)
(* quote, and a brace outside quotes opens or closes a block.              *)
(***************************************************************************)
ScanState(depth, quote, stray) == [depth |-> depth, quote |-> quote, stray |-> stray]

RECURSIVE Scan(_, _)
Scan(text, n) ==
    IF n = 0 THEN ScanState(0, FALSE, FALSE)
    ELSE LET s == Scan(text, n - 1)
             c == text[n] IN
         IF c = "\"" /\ s.depth = 0 THEN ScanState(0, ~s.quote, s.stray)
         ELSE IF c = "{" /\ ~s.quote THEN ScanState(s.depth + 1, s.quote, s.stray)
         ELSE IF c = "}" /\ ~s.quote THEN
             (IF s.depth = 0 THEN ScanState(0, s.quote, TRUE)
              ELSE ScanState(s.depth - 1, s.quote, s.stray))
         ELSE s

Closed(text, n) == Scan(text, n).depth = 0 /\ ~Scan(text, n).quote

\* Braces outside quotes are balanced and every quote is closed.
WellFormed(text) == Closed(text, Len(text)) /\ ~Scan(text, Len(text)).stray

\* Where the block that is open after n characters began.
BlockStart(text, n) ==
    CHOOSE i \in 1..n :
        /\ Scan(text, i - 1).depth = 0
        /\ \A j \in i..n : Scan(text, j).depth > 0

\* Where the block or quote that is open after n characters began.
OpenStart(text, n) ==
    CHOOSE i \in 1..n :
        /\ Closed(text, i - 1)
        /\ \A j \in i..n : ~Closed(text, j)

Consumed == pos - 1

\* C7: on a text whose braces outside quotes are balanced and whose quotes
\* are closed, the depth counter is zero at the end of the input, and a
\* brace-delimited span that starts at depth 0 is read into one token: while
\* it is open no token is emitted and the token being read ends with the
\* span so far, and when it closes exactly one token is emitted, which ends
\* with the whole span.
C7_BlockIsOneToken ==
    WellFormed(input) =>
        /\ (tphase = "scan" /\ Consumed = Len(input)) => in_parentheses = 0
        /\ tphase # "scan" => in_parentheses = 0
        /\ (tphase = "scan" /\ Scan(input, Consumed).depth > 0) =>
            LET i == BlockStart(input, Consumed) IN
            /\ in_parentheses = Scan(input, Consumed).depth
            /\ IsSuffix(SubSeq(input, i, Consumed), current_token)
            /\ tokens = TokRun(input, i - 1).tokens
        /\ (/\ tphase = "scan"
            /\ Consumed > 0
            /\ Scan(input, Consumed).depth = 0
            /\ Scan(input, Consumed - 1).depth > 0) =>
            LET i == BlockStart(input, Consumed - 1) IN
            /\ Len(tokens) = Len(TokRun(input, i - 1).tokens) + 1
            /\ Front(tokens) = TokRun(input, i - 1).tokens
            /\ IsSuffix(SubSeq(input, i, Consumed), Last(tokens))
            /\ current_token = <<>>

C7_Witness ==
    /\ input = <<"{", "a", " ", "{", "}", "}">>
    /\ tphase = "tokens"
    /\ tokens = <<input>>
    /\ in_parentheses = 0

\* C8: when the input ends with the depth above zero or a quote open, the
\* unterminated text is not emitted: the tokens returned are exactly the
\* tokens that were complete before the unterminated span began.
C8_UnterminatedIsDropped ==
    (tphase # "scan" /\ (in_parentheses # 0 \/ in_quote)) =>
        /\ ~Closed(input, Len(input))
        /\ tokens = TokRun(input, OpenStart(input, Len(input)) - 1).tokens

C8_Witness ==
    /\ input = <<"a", " ", "a", "{", "a">>
    /\ tphase = "tokens"
    /\ in_parentheses = 1
    /\ tokens = <<<<"a">>>>

RemoveIndex(seq, i) == SubSeq(seq, 1, i - 1) \o SubSeq(seq, i + 1, Len(seq))

\* C9: a token that is no float literal, quoted string or block, does not
\* start with $ and is no keyword adds no Value: the tokens parse to the
\* same Value sequence as they do with that token removed.
C9_UnmatchedTokenAddsNothing ==
    tphase = "parsed" =>
        \A i \in 1..Len(tokens) :
            Unrecognized(tokens[i]) => result = parse_tokens(RemoveIndex(tokens, i))

C9_Witness ==
    /\ tphase = "parsed"
    /\ tokens = <<<<"1", "x">>, <<"$", "v">>>>
    /\ result = <<Variable(<<"v">>)>>

(***************************************************************************)
(* The claims checked on scripts (FileSpec).                               *)
(***************************************************************************)
\* C11: let pops the top of the stack and uses its string coercion as the
\* name, then pops the next value as it is and binds the name to it,
\* replacing an earlier binding of that name; every other binding, every
\* stack value below the two operands and the output are unchanged.  After
\* `5 "x" let 7 "y" let 6 "x" let $x $y` memory binds x to 6 and y to 7, the
\* values of the last let on each name.
C11_LetBindsTopAsName ==
    /\ last.order = Instruction("Let") =>
        LET st == Padded(last.stack, 2)
            n == Len(st)
            name == get_string(st[n])
        IN /\ stack = SubSeq(st, 1, n - 2)
           /\ DOMAIN memory = DOMAIN last.memory \cup {name}
           /\ memory[name] = st[n - 1]
           /\ \A other \in DOMAIN last.memory \ {name} : memory[other] = last.memory[other]
           /\ output = last.output
    /\ (Finished /\ chunks = <<SrcLetTwoNames>>) =>
        /\ DOMAIN memory = {<<"x">>, <<"y">>}
        /\ memory[<<"x">>] = Fin(1, 6)
        /\ memory[<<"y">>] = Fin(1, 7)
        /\ stack = <<Fin(1, 6), Fin(1, 7)>>

\* The third let of the script has replaced x and kept y.
C11_Witness ==
    /\ chunks = <<SrcLetTwoNames>>
    /\ last.order = Instruction("Let")
    /\ last.stack = <<Fin(1, 6), Str(<<"x">>)>>
    /\ last.memory[<<"x">>] = Fin(1, 5)
    /\ memory[<<"x">>] = Fin(1, 6)
    /\ memory[<<"y">>] = Fin(1, 7)
    /\ stack = <<>>

\* What C12 says of one step of the evaluator.
C12_Step ==
    \* while and until pop the body first and the condition second, and start
    \* with the condition
    /\ AtInstruction({"While", "Until"}) =>
        LET st == Padded(stack, 2)
            n == Len(st)
        IN /\ stack' = SubSeq(st, 1, n - 2)
           /\ ctl' = Append(Append(Front(ctl), SeqFrame(Tail(Top.prog))),
                            LoopFrame(Order.i = "Until", get_block(st[n - 1]),
                                      get_block(st[n]), "cond"))
    \* the condition block is evaluated, on the stack as it is
    /\ (Running /\ Top.k = "loop" /\ Top.at = "cond") =>
        /\ stack' = stack
        /\ ctl' = Append(Front(ctl), [Top EXCEPT !.at = "test"]) \o <<SeqFrame(Top.condition)>>
    \* then one value is popped as its bool, and the body runs or the loop exits
    /\ (Running /\ Top.k = "loop" /\ Top.at = "test") =>
        LET st == Padded(stack, 1)
            again == get_bool(Last(st)) # Top.neg
        IN /\ stack' = Front(st)
           /\ again => ctl' = Append(Front(ctl), [Top EXCEPT !.at = "cond"])
                              \o <<SeqFrame(Top.body)>>
           /\ ~again => ctl' = Front(ctl)
    \* an activation is entered directly above a loop only for its condition
    \* or, right after the test, for its body
    /\ \A j \in 1..(Len(ctl') - 1) :
        (ctl'[j].k = "loop" /\ j + 1 > Len(ctl)) =>
            /\ Running
            /\ Top.k = "loop"
            /\ j = Len(ctl)
            /\ Top.at = "cond" => ctl'[j + 1] = SeqFrame(Top.condition)
            /\ Top.at = "test" =>
                /\ get_bool(Last(Padded(stack, 1))) # Top.neg
                /\ ctl'[j + 1] = SeqFrame(Top.body)

\* C12: while and until pop the body block first and the condition block
\* second, then alternate strictly: the condition is evaluated and one value
\* popped as its bool before every run of the body, the body runs only
\* directly after a test that was true (while) or false (until), and the loop
\* exits at the first test that was false (while) or true (until).  A loop
\* that ended has evaluated its condition once more than its body: the two
\* scripts whose condition prints c and whose body prints b write c, b, c.
C12_ConditionAndBodyAlternate ==
    /\ [][C12_Step]_vars
    /\ [](chunks \in {<<SrcWhileTrace>>, <<SrcUntilTrace>>} =>
            /\ output \in {<<>>, <<"c">>, <<"c", "b">>, <<"c", "b", "c">>}
            /\ Finished => output = <<"c", "b", "c">>)

C12_Witness ==
    /\ Finished
    /\ chunks = <<SrcUntilTrace>>
    /\ output = <<"c", "b", "c">>
    /\ memory[<<"i">>] = Fin(1, 1)

\* `<n> <m> equal {9} {8} if-else`
SrcIfElse(n, k) ==
    Join(<<<<n>>, <<k>>, Kw("Equal"), Braced(<<"9">>), Braced(<<"8">>), Kw("IfElse")>>)
\* `7 3 4 if-else`
SrcIfElseNumbers == Join(<<<<"7">>, <<"3">>, <<"4">>, Kw("IfElse")>>)

\* What C13 says of the step that takes an if-else.
C13_Step ==
    AtInstruction({"IfElse"}) =>
        LET st == Padded(stack, 3)
            n == Len(st)
            chosen == IF st[n - 2] = Bool(TRUE) THEN get_block(st[n - 1]) ELSE get_block(st[n])
        IN /\ stack' = SubSeq(st, 1, n - 3)
           /\ memory' = memory
           /\ output' = output
           /\ ctl' = Append(Append(Front(ctl), SeqFrame(Tail(Top.prog))), SeqFrame(chosen))

\* C13: if-else pops block-false (the top), block-true and the bool, and then
\* runs exactly one activation: of block-true when the third value popped is
\* Bool(true), of block-false when it is Bool(false) or no Bool at all.  The
\* other block is dropped and has no effect: `1 1 equal {9} {8} if-else`
\* leaves 9 alone, `1 0 equal {9} {8} if-else` leaves 8 alone, and
\* `7 3 4 if-else` (a Number as the bool) leaves 4 alone.
C13_IfElseRunsOneBlock ==
    /\ [][C13_Step]_vars
    /\ [](/\ chunks = <<SrcIfElse("1", "1")>> =>
                /\ \A i \in 1..Len(stack) : stack[i] # Fin(1, 8)
                /\ Finished => stack = <<Fin(1, 9)>>
          /\ chunks = <<SrcIfElse("1", "0")>> =>
                /\ \A i \in 1..Len(stack) : stack[i] # Fin(1, 9)
                /\ Finished => stack = <<Fin(1, 8)>>
          /\ (Finished /\ chunks = <<SrcIfElseNumbers>>) => stack = <<Fin(1, 4)>>
          /\ chunks \in {<<SrcIfElse("1", "1")>>, <<SrcIfElse("1", "0")>>, <<SrcIfElseNumbers>>} =>
                memory = NoMemory /\ output = <<>>)

C13_Witness ==
    /\ Finished
    /\ chunks = <<SrcIfElse("1", "0")>>
    /\ last.order = Fin(1, 8)
    /\ stack = <<Fin(1, 8)>>

\* The programs C14 puts in a block.
Blocks14 ==
    {parse(Join(<<<<"3">>, <<"4">>, Kw("Add")>>)),
     parse(Join(<<Quoted(<<"h">>), Kw("Print")>>)),
     parse(Join(<<<<"$", "x">>, <<"$", "i">>>>)),
     parse(Join(<<<<"5">>, Quoted(<<"x">>), Kw("Let")>>)),
     parse(Join(<<Braced(<<"9">>), Kw("Eval"), Kw("Pop")>>)),
     parse(Kw("Eval")),
     parse(Kw("When")),
     parse(Kw("IfElse")),
     parse(Kw("Let")),
     parse(Kw("Concat")),
     <<>>}

\* `{1 1 equal} {9} eval`
SrcEvalBlock ==
    Join(<<Braced(Join(<<<<"1">>, <<"1">>, Kw("Equal")>>)), Braced(<<"9">>), Kw("Eval")>>)

\* C14: in every Machine state, evaluating the block literal {P} followed by
\* eval ends in the same stack, memory and output as evaluating P inline; an
\* eval that pops a value that is no Block evaluates it as a one-element
\* program, which pushes back every value but a Variable bound in memory (an
\* Instruction is never on the stack); on an empty stack it pushes the
\* Error(StackEmpty) it popped.  The function eval agrees with the steps of
\* the evaluator on every script that has ended.  (The blocks return in every
\* state but those of the script whose block evaluates itself without end,
\* where both sides have no result.)
C14_EvalOfBlockIsInline ==
    /\ \A P \in Blocks14 :
        /\ chunks # <<SrcEvalSelf>> => eval(P, stack, memory, output).done
        /\ eval(<<Block(P), Instruction("Eval")>>, stack, memory, output)
            = eval(P, stack, memory, output)
    /\ \A i \in 1..Len(stack) : stack[i].t # "Instruction"
    /\ (stack # <<>> /\ Last(stack).t # "Block") =>
        /\ eval(<<Instruction("Eval")>>, stack, memory, output)
            = eval(<<Last(stack)>>, Front(stack), memory, output)
        /\ (Last(stack).t # "Variable" \/ Last(stack).name \notin DOMAIN memory) =>
            eval(<<Instruction("Eval")>>, stack, memory, output)
                = [done |-> TRUE, stack |-> stack, memory |-> memory, output |-> output]
    /\ stack = <<>> =>
        eval(<<Instruction("Eval")>>, stack, memory, output).stack = <<StackEmpty>>
    /\ (Finished /\ eval(parse(chunks[1]), <<>>, NoMemory, <<>>).done) =>
        eval(parse(chunks[1]), <<>>, NoMemory, <<>>)
            = [done |-> TRUE, stack |-> stack, memory |-> memory, output |-> output]
    /\ (Finished /\ chunks = <<SrcEvalBlock>>) =>
        stack = <<Block(<<Fin(1, 1), Fin(1, 1), Instruction("Equal")>>), Fin(1, 9)>>

\* eval has popped the block {9} and evaluates it on the stack below it.
C14_Witness ==
    /\ chunks = <<SrcEvalBlock>>
    /\ last.order = Instruction("Eval")
    /\ Last(last.stack) = Block(<<Fin(1, 9)>>)
    /\ stack = Front(last.stack)
    /\ Top = SeqFrame(<<Fin(1, 9)>>)

\* The values that are neither Instruction nor Variable.
LiteralTypes == {"Number", "String", "Bool", "Block", "Error"}
LiteralPool ==
    {Fin(1, 5), Fin(-1, 0), Str(<<"a">>), Str(<<>>), Bool(TRUE), StackEmpty,
     Block(<<Str(<<"h">>), Instruction("Print")>>),
     Block(<<Block(<<Instruction("Pop")>>), Instruction("Eval")>>)}
LiteralSeqs ==
    {<<>>} \cup {<<a>> : a \in LiteralPool} \cup {<<a, b>> : a \in LiteralPool, b \in LiteralPool}

\* `2 "b" 0`
SrcLiterals == Join(<<<<"2">>, Quoted(<<"b">>), <<"0">>>>)

\* What C15 says of the step that takes a literal.
C15_Step ==
    (AtOrder /\ Order.t \in LiteralTypes) =>
        /\ stack' = Append(stack, Order)
        /\ memory' = memory
        /\ output' = output
        /\ ctl' = Append(Front(ctl), SeqFrame(Tail(Top.prog)))

\* C15: evaluating a sequence of Number, String, Bool, Block and Error values
\* appends exactly those values, unchanged and in their order, on top of the
\* stack as it is, enters no Block, and changes neither memory nor output;
\* parsing and then evaluating the literal 6 or "hi" leaves exactly that
\* literal on top of the stack, and the script `2 "b" 0` leaves 2, "b", 0.
C15_LiteralsArePushedAsTheyAre ==
    /\ [][C15_Step]_vars
    /\ [](/\ \A L \in LiteralSeqs :
                eval(L, stack, memory, output)
                    = [done |-> TRUE, stack |-> stack \o L, memory |-> memory,
                       output |-> output]
          /\ eval(parse(<<"6">>), stack, memory, output).stack = Append(stack, Fin(1, 6))
          /\ eval(parse(Quoted(<<"h", "i">>)), stack, memory, output).stack
                = Append(stack, Str(<<"h", "i">>))
          /\ (Finished /\ chunks = <<SrcLiterals>>) =>
                stack = <<Fin(1, 2), Str(<<"b">>), Fin(1, 0)>> /\ memory = NoMemory)

C15_Witness ==
    /\ Finished
    /\ chunks = <<SrcLiterals>>
    /\ last.order = Fin(1, 0)
    /\ last.stack = <<Fin(1, 2), Str(<<"b">>)>>
    /\ stack = <<Fin(1, 2), Str(<<"b">>), Fin(1, 0)>>

\* `7 3 4 pop`
SrcPopNumbers == Join(<<<<"7">>, <<"3">>, <<"4">>, Kw("Pop")>>)

\* C16: the pop instruction removes exactly the top value of a stack that is
\* not empty and changes nothing else; on an empty stack it does nothing: the
\* stack stays empty, with no Error(StackEmpty) pushed, memory is unchanged
\* and nothing is written.  `7 3 4 pop` leaves 7, 3 and `pop` alone leaves
\* the empty stack.
C16_PopRemovesTheTop ==
    /\ last.order = Instruction("Pop") =>
        /\ last.stack # <<>> => stack = Front(last.stack)
        /\ last.stack = <<>> => stack = <<>>
        /\ memory = last.memory
        /\ output = last.output
    /\ eval(<<Instruction("Pop")>>, stack, memory, output)
        = [done |-> TRUE, stack |-> SubSeq(stack, 1, Len(stack) - 1), memory |-> memory,
           output |-> output]
    /\ (Finished /\ chunks = <<SrcPopNumbers>>) => stack = <<Fin(1, 7), Fin(1, 3)>>
    /\ (Finished /\ chunks = <<Kw("Pop")>>) =>
        stack = <<>> /\ memory = NoMemory /\ output = <<>>

\* pop has been taken on the empty stack of a fresh Machine.
C16_Witness ==
    /\ Finished
    /\ chunks = <<Kw("Pop")>>
    /\ last.order = Instruction("Pop")
    /\ last.stack = <<>>
    /\ stack = <<>>

(***************************************************************************)
(* The claims about the tokenizer's closing brace (TokSpec).               *)
(***************************************************************************)
\* Whether character n of text is a closing brace outside quotes at depth 0.
IsStray(text, n) ==
    text[n] = "}" /\ ~Scan(text, n - 1).quote /\ Scan(text, n - 1).depth = 0

\* The first n characters of text without those closing braces.
RECURSIVE Unstray(_, _)
Unstray(text, n) ==
    IF n = 0 THEN <<>>
    ELSE Unstray(text, n - 1) \o (IF IsStray(text, n) THEN <<>> ELSE <<text[n]>>)

\* C17: the brace-depth counter of the tokenizer never goes below zero; a
\* closing brace met outside quotes at depth 0 is discarded: it is not added
\* to the current token and does not end it, so the tokens of a text are the
\* tokens of the text without those braces, and `a}a` is the one token aa.
C17_StrayBraceIsDiscarded ==
    /\ in_parentheses >= 0
    /\ (tphase = "scan" /\ Consumed > 0 /\ IsStray(input, Consumed)) =>
        /\ TokLocals = TokRun(input, Consumed - 1)
        /\ in_parentheses = 0
    /\ tphase # "scan" => tokens = tokenize_expr(Unstray(input, Len(input)))
    /\ (tphase # "scan" /\ input = <<"a", "}", "a">>) => tokens = <<<<"a", "a">>>>

C17_Witness ==
    /\ input = <<"a", "}", "a", " ", "}", "1">>
    /\ tphase = "tokens"
    /\ tokens = <<<<"a", "a">>, <<"1">>>>
    /\ in_parentheses = 0

(***************************************************************************)
(* The claims about loops and termination (FileSpec).                       *)
(***************************************************************************)
\* `7 3 4 while`, `2 "b" 0 while`, `$y 1 while`: the condition is the
\* one-element program of a Number, a String or an unbound Variable.
SrcWhileOn(setup) == Join(<<setup, Kw("While")>>)
\* `7 3 4` and `$y 1`
SrcNumbers == Join(<<<<"7">>, <<"3">>, <<"4">>>>)
SrcUnbound == Join(<<<<"$", "y">>, <<"1">>>>)
\* `5 {} until`
SrcUntilNumber == Join(<<<<"5">>, Braced(<<>>), Kw("Until")>>)

\* The loop on top of the activations has popped a value that is no Bool.
TestsNonBool ==
    Running /\ Top.k = "loop" /\ Top.at = "test" /\ Last(Padded(stack, 1)).t # "Bool"

\* The body of the innermost loop has just been entered.
BodyEntered ==
    /\ Len(ctl) >= 2
    /\ ctl[Len(ctl) - 1].k = "loop"
    /\ ctl[Len(ctl) - 1].at = "cond"
    /\ Top = SeqFrame(ctl[Len(ctl) - 1].body)
    /\ last.order.t = "LoopTest"

\* What C18 says of the step that tests a condition which left no Bool.
C18_Step ==
    TestsNonBool =>
        /\ stack' = Front(Padded(stack, 1))
        /\ ~Top.neg => ctl' = Front(ctl)
        /\ Top.neg => ctl' = Append(Front(ctl), [Top EXCEPT !.at = "cond"])
                             \o <<SeqFrame(Top.body)>>

\* C18: when the condition leaves a value that is no Bool (a Number, String,
\* Block, unbound Variable or Error), while leaves the loop at that test, so
\* it runs its body zero times and ends, whereas until enters its body at
\* every such test, so it never ends and runs its body again and again for
\* as long as the body returns.  `7 3 4 while`, `2 "b" 0 while` and
\* `$y 1 while` end with the body's value never pushed, and `while` on an
\* empty stack ends with an empty stack; `5 {} until` never ends and enters
\* its body infinitely often, and `until` on an empty stack never ends and
\* fills the stack with the Errors its body pushes.
C18_NonBoolEndsWhileNotUntil ==
    /\ [][C18_Step]_vars
    /\ [](/\ chunks \in {<<SrcUntilNumber>>, <<Kw("Until")>>} => ~Finished
          /\ chunks \in {<<SrcWhileOn(SrcNumbers)>>, <<SrcWhileOn(SrcLiterals)>>,
                          <<SrcWhileOn(SrcUnbound)>>, <<Kw("While")>>} => ~BodyEntered)
    /\ (chunks = <<SrcWhileOn(SrcNumbers)>>) ~> (Finished /\ stack = <<Fin(1, 7)>>)
    /\ (chunks = <<SrcWhileOn(SrcLiterals)>>) ~> (Finished /\ stack = <<Fin(1, 2)>>)
    /\ (chunks = <<SrcWhileOn(SrcUnbound)>>) ~> (Finished /\ stack = <<>>)
    /\ (chunks = <<Kw("While")>>) ~> (Finished /\ stack = <<>>)
    /\ (chunks = <<SrcUntilNumber>>) ~> (BodyEntered /\ stack = <<>>)
    /\ (chunks = <<Kw("Until")>>)
            ~> (stack = [j \in 1..MaxStack |-> StackEmpty])

\* until has popped the 5 its condition left and entered its body.
C18_Witness ==
    /\ chunks = <<SrcUntilNumber>>
    /\ BodyEntered
    /\ last.stack = <<Fin(1, 5)>>
    /\ stack = <<>>
    /\ ctl[Len(ctl) - 1].neg

\* Whether one of the instructions is in the values, at any depth of blocks.
RECURSIVE Holds(_, _)
Holds(values, instructions) ==
    \E i \in 1..Len(values) :
        \/ values[i].t = "Instruction" /\ values[i].i \in instructions
        \/ values[i].t = "Block" /\ Holds(values[i].blk, instructions)

\* main is about to evaluate, or is in the outermost activation of, a program
\* without while, until, let and input, on a Machine with empty memory whose
\* stack holds none of the given instructions.
StartsLoopFree(onStack) ==
    /\ ~aborted
    /\ Len(ctl) = 1
    /\ Top.k = "seq"
    /\ ~Holds(Top.prog, {"While", "Until", "Let", "Input"})
    /\ memory = NoMemory
    /\ ~Holds(stack, onStack)

\* The next order cannot be taken within the bounds of the model.
Blocked ==
    /\ AtOrder
    /\ Order # Instruction("Input")
    /\ LET r == Exec(Order, stack, memory, output) IN
       ~Fits(r, Append(Front(ctl), SeqFrame(Tail(Top.prog))) \o r.frames)

\* The call of eval on the rest of the outermost activation returns, as far
\* as the number domain lets the model follow it.
RestReturns ==
    LET r == eval(Top.prog, stack, memory, output) IN r.done \/ r.why = "outside"

\* C19 as stated: from a Machine with empty memory and a stack that holds no
\* Block with while or until in it, the evaluation of a program without
\* while, until, let and input at any depth returns.
C19_LoopFreeEndsOnAnyStack == StartsLoopFree({"While", "Until"}) => RestReturns

\* C19 amended: from a Machine with empty memory and a stack that holds no
\* Block with while, until, let or input in it, the evaluation of a program
\* without while, until, let and input at any depth returns, and it returns
\* with the memory still empty.  (A block on the stack that holds a let can
\* bind a name to a block that fetches and evaluates that name:
\* `{$x eval} "x" let $x eval` run by eval does not return.)
C19_LoopFreeEndsOnLoopFreeStack ==
    /\ [](StartsLoopFree({"While", "Until", "Let", "Input"}) =>
            /\ RestReturns
            /\ eval(Top.prog, stack, memory, output).done =>
                eval(Top.prog, stack, memory, output).memory = NoMemory)
    /\ StartsLoopFree({"While", "Until", "Let", "Input"}) ~> (Finished \/ Blocked)

\* `1 1 equal {9} {8} if-else` has returned: its blocks were consumed.
C19_Witness ==
    /\ Finished
    /\ chunks = <<SrcIfElse("1", "1")>>
    /\ ~Holds(parse(chunks[1]), {"While", "Until", "Let", "Input"})
    /\ stack = <<Fin(1, 9)>>
    /\ memory = NoMemory

\* Values that are neither Number, String nor Variable.
Stringless ==
    {Bool(TRUE), Bool(FALSE), Block(<<>>), Block(<<Fin(1, 9)>>),
     Block(<<Instruction("Equal")>>), Instruction("Add"), Instruction("Equal"),
     StackEmpty}

\* `1 "1" equal`
SrcEqualNumberString == Join(<<<<"1">>, Quoted(<<"1">>), Kw("Equal")>>)

\* C20: equal pops R (top) and L and pushes Bool(true) when the strings the
\* two coerce to are the same and Bool(false) when they are not, whatever
\* their variants: Number(1.0) and String("1") compare equal, any two of Bool,
\* Block, Instruction and Error compare equal (each coerces to ""), and on an
\* empty stack, where both operands are Error(StackEmpty), equal pushes
\* Bool(true).  Nothing else changes.
C20_EqualComparesStrings ==
    /\ last.order = Instruction("Equal") =>
        LET ops == Padded(last.stack, 2)
            n == Len(ops)
            L == ops[n - 1]
            R == ops[n]
        IN
        /\ stack = Append(SubSeq(ops, 1, n - 2), Bool(get_string(L) = get_string(R)))
        /\ memory = last.memory
        /\ output = last.output
        /\ ({L.t, R.t} \subseteq {"Bool", "Block", "Instruction", "Error"}) =>
            Last(stack) = Bool(TRUE)
        /\ ({L.t, R.t} \subseteq {"Number", "String", "Variable"} /\ L.t = R.t) =>
            Last(stack) = Bool(L = R)
        /\ (L.t \in {"Bool", "Block", "Error"} /\ R.t = "Number") => Last(stack) = Bool(FALSE)
        /\ last.stack = <<>> => stack = <<Bool(TRUE)>>
    /\ \A a \in Stringless, b \in Stringless :
        eval(<<Instruction("Equal")>>, <<a, b>>, memory, output)
            = [done |-> TRUE, stack |-> <<Bool(TRUE)>>, memory |-> memory, output |-> output]
    /\ eval(<<Instruction("Equal")>>, <<Fin(1, 1), Str(<<"1">>)>>, memory, output).stack
        = <<Bool(TRUE)>>
    /\ eval(<<Instruction("Equal")>>, <<Str(<<"1">>), Variable(<<"1">>)>>, memory, output).stack
        = <<Bool(TRUE)>>
    /\ eval(<<Instruction("Equal")>>, <<Fin(1, 1), Str(<<"1", ".", "0">>)>>, memory, output).stack
        = <<Bool(FALSE)>>
    /\ (Finished /\ chunks = <<SrcEqualNumberString>>) => stack = <<Bool(TRUE)>>
    /\ (Finished /\ chunks = <<Kw("Equal")>>) => stack = <<Bool(TRUE)>>
    /\ (Finished /\ chunks = <<Join(<<SrcEvalBlock, Kw("Equal")>>)>>) =>
        stack = <<Block(<<Fin(1, 1), Fin(1, 1), Instruction("Equal")>>), Bool(FALSE)>>

\* equal has compared Number(1.0) with String("1").
C20_Witness ==
    /\ last.order = Instruction("Equal")
    /\ last.stack = <<Fin(1, 1), Str(<<"1">>)>>
    /\ stack = <<Bool(TRUE)>>
    /\ chunks = <<SrcEqualNumberString>>

=============================================================================
